---- MODULE Spec2Model ----
(***************************************************************************)
(* Model of the client-side synchronisation core of the light-novel        *)
(* bookmark frontend: the reading-session store                            *)
(* (src/lib/stores/reading-sessions.ts), the user-preference store         *)
(* (src/lib/stores/user-preferences.ts) and the API client with its        *)
(* localStorage fallback (src/lib/api/novels.ts).                          *)
(*                                                                         *)
(* Every async handler is split at its await: the synchronous part up to   *)
(* the request, the remote service handling the request, and the           *)
(* continuation that runs when the response arrives.  Code between two     *)
(* awaits runs atomically (single-threaded cooperative execution).         *)
(***************************************************************************)
EXTENDS Integers, Sequences, FiniteSets, Bags, TLC

\* ------------------------------------------------------------------ bounds
MaxNovel == 2
MaxSessions == 2
MaxCalls == 2
MaxPrefCalls == 3
MaxStreakSessions == 3
MaxStreakDay == 3

Novels == 1..MaxNovel

\* --------------------------------------------------------------- constants
MsPerMinute == 60000
MsPerHour == 3600000
MsPerDay == 86400000
NaN == -99999999
Null == "null"

\* ------------------------------------------------------------- time inputs
\* A timestamp string is modelled by what a parser reads from it: the form
\* of the string (no zone marker, a trailing Z, a numeric offset, or text
\* that is no date at all), the instant its date/time fields denote when
\* they are read as UTC fields (wall, in ms from the model's epoch) and the
\* numeric offset it carries (off, in ms).
Garbage == [form |-> "garbage", wall |-> 0, off |-> 0]
NoStamp == [form |-> "none", wall |-> 0, off |-> 0]
Naive(w) == [form |-> "naive", wall |-> w, off |-> 0]
Zulu(w) == [form |-> "zulu", wall |-> w, off |-> 0]
Offset(w, o) == [form |-> "offset", wall |-> w, off |-> o]

\* The start timestamps the remote service hands out.
CoreStamps == {Naive(0)}
Stamps == {Naive(0), Naive(3600000), Zulu(0), Offset(3600000, 3600000), Garbage}

\* Values of the client's clock (new Date()) at the time endSession runs.
CoreNows == {30000}
NowValues == {30000, 3900000, 3959000}

\* The client's local UTC offset in ms (local time = UTC + offset).
TzOffsets == {-3600000, 0, 3600000}

\* What the completion callback passed to endSession does.
Callbacks == {"none", "returns", "throws"}

\* ------------------------------------------------------------------- state
VARIABLES
  sessions,        \* ReadingSessionsState.sessions
  activeSessions,  \* ReadingSessionsState.activeSessions: novelId -> session
  loading,         \* ReadingSessionsState.loading
  error,           \* ReadingSessionsState.error
  remote,          \* the sessions held by the remote service, by id
  calls,           \* the store calls suspended at their await (a bag)
  outcome,         \* how the call completed by the last step ended (none: no call)
  tzOffset,        \* the client's local UTC offset
  preferences,     \* UserPreferencesState.preferences: novelId -> UserPreference
  prefLoading,     \* UserPreferencesState.loading
  prefError,       \* UserPreferencesState.error
  remotePrefs,     \* the preference records held by the remote service
  localPrefs,      \* the map stored under 'lightnovel-user-preferences'
  prefCalls,       \* the preference calls suspended at their await (a bag)
  prefOutcome,     \* how the preference call completed by the last step ended
  issued,          \* the number of preference calls made so far
  novels,          \* NovelsState.novels: the catalog list the client holds
  novelsLoading,   \* NovelsState.loading
  novelsError,     \* NovelsState.error
  catalog,         \* the catalog records held by the remote service
  novelCalls,      \* the catalog calls suspended at their await (a bag)
  novelStats,      \* the novel page's statistics state (null: no statistics)
  statsLoading,    \* the novel page's statsLoading flag
  statsCalls,      \* the loadNovelStats calls suspended at their await (a bag)
  statsOutcome,    \* how the loadNovelStats call completed by the last step ended
  derived,         \* the value a derived store was last read with, and its arguments
  streak           \* what the last call of calculateReadingStreak returned

sessVars == <<sessions, activeSessions, loading, error, remote, calls, outcome, tzOffset>>
prefVars == <<preferences, prefLoading, prefError, remotePrefs, localPrefs, prefCalls,
              prefOutcome, issued>>
catVars == <<novels, novelsLoading, novelsError, catalog, novelCalls>>
pageVars == <<novelStats, statsLoading, statsCalls, statsOutcome, derived, streak>>
vars == <<sessVars, prefVars, catVars, pageVars>>

\* A ReadingSession.  ended stands for the presence of ended_at.  The store
\* passes chapter_number and device_type through and never reads
\* duration_minutes of a session, so a session carries none of them here; the
\* duration is part of the end request.
NoSession == [id |-> 0, novel_id |-> 0, started_at |-> NoStamp, ended |-> FALSE]

\* The body of a PATCH /reading-sessions/{id}/end request, with the inputs
\* the duration was computed from.
NoReq == [sid |-> 0, duration_minutes |-> 0, started_at |-> NoStamp, now |-> 0]

\* A store call suspended at its await: its arguments, the request while the
\* service has not answered, the answer once it has.
Call(op, novel, cb, req) ==
  [op |-> op, novel |-> novel, cb |-> cb, stage |-> "sent", req |-> req,
   resp |-> NoSession, list |-> <<>>]

NoOutcome == [op |-> "none", novel |-> 0, result |-> "none", err |-> Null, trace |-> <<>>]
Returned(op, novel, trace) ==
  [op |-> op, novel |-> novel, result |-> "returned", err |-> Null, trace |-> trace]
Threw(op, novel, err, trace) ==
  [op |-> op, novel |-> novel, result |-> "threw", err |-> err, trace |-> trace]

Pending == BagToSet(calls)
Suspend(call) == calls (+) SetToBag({call})
Replace(old, new) == (calls (-) SetToBag({old})) (+) SetToBag({new})
Finish(call) == calls (-) SetToBag({call})

\* --------------------------------------------------------- pure functions

\* reading-sessions.ts:94-96
hasTimezone(ts) == ts.form \in {"zulu", "offset"}

\* reading-sessions.ts:100  startTimeStr + 'Z'
AppendZ(ts) == IF ts.form = "naive" THEN [ts EXCEPT !.form = "zulu"] ELSE ts

\* new Date(string): a date-time string with no zone marker is local time.
DateParse(ts, tz) ==
  CASE ts.form = "zulu" -> ts.wall
    [] ts.form = "offset" -> ts.wall - ts.off
    [] ts.form = "naive" -> ts.wall - tz
    [] OTHER -> NaN

\* reading-sessions.ts:110  the component regexp matches
MatchComponents(ts) == ts.form \in {"naive", "zulu", "offset"}

\* reading-sessions.ts:113-121  Date.UTC(year, month - 1, day, h, m, s, ms)
DateUTC(ts) == ts.wall

isNaN(t) == t = NaN

\* new Date(activeSession.started_at): the string as it came
finalStartTimeLocal(ts, tz) == DateParse(ts, tz)

\* reading-sessions.ts:91-128
finalStartTime(ts, tz) ==
  LET startTimeStr == IF ~hasTimezone(ts) THEN AppendZ(ts) ELSE ts
      startTime == DateParse(startTimeStr, tz)
  IN  IF ~hasTimezone(ts) /\ MatchComponents(ts) THEN DateUTC(ts) ELSE startTime

\* no minimum for a short session
durationMinutesNoClamp(durationMs) ==
  IF durationMs < 0 THEN 1 ELSE durationMs \div MsPerMinute

\* Math.round in place of Math.floor
durationMinutesRound(durationMs) ==
  IF durationMs < 0 THEN 1
  ELSE IF durationMs < MsPerMinute THEN 1
  ELSE (durationMs + (MsPerMinute \div 2)) \div MsPerMinute

\* reading-sessions.ts:139-147
durationMinutes(durationMs) ==
  IF durationMs < 0 THEN 1
  ELSE IF durationMs < MsPerMinute THEN 1
  ELSE durationMs \div MsPerMinute

\* reading-sessions.ts:187-193
getActiveSession(novelId) == activeSessions[novelId]

\* reading-sessions.ts:85-87, 178-183  endSession without a registered session
noActiveSilent(novelId) == Returned("end", novelId, <<>>)
noActiveSession(novelId) ==
  Threw("end", novelId, "No active session found for this novel", <<>>)

\* reading-sessions.ts:162-163  the registry without the entry of novelId
unregisterAll(novelId) == [n \in Novels |-> NoSession]
unregister(novelId) == [activeSessions EXCEPT ![novelId] = NoSession]

\* reading-sessions.ts:159-177  what the continuation of endSession does, in
\* order, after the answer "closed" of the service or after its failure
endEventsAlways(call) ==
  IF call.stage = "ok"
  THEN <<"closed", "unregistered">> \o (IF call.cb # "none" THEN <<"callback">> ELSE <<>>)
  ELSE IF call.cb # "none" THEN <<"callback">> ELSE <<>>
endEvents(call) ==
  IF call.stage = "ok"
  THEN <<"closed", "unregistered">> \o (IF call.cb # "none" THEN <<"callback">> ELSE <<>>)
  ELSE <<>>

RECURSIVE MapSessions(_, _)
\* reading-sessions.ts:168  sessions.map(s => s.id === ended.id ? ended : s)
MapSessions(list, ended) ==
  IF list = <<>> THEN <<>>
  ELSE <<IF Head(list).id = ended.id THEN ended ELSE Head(list)>>
         \o MapSessions(Tail(list), ended)

RECURSIVE FilterSessions(_, _)
\* GET /reading-sessions?novel_id=...  (0: no filter)
FilterSessions(list, novelId) ==
  IF list = <<>> THEN <<>>
  ELSE (IF novelId = 0 \/ Head(list).novel_id = novelId THEN <<Head(list)>> ELSE <<>>)
         \o FilterSessions(Tail(list), novelId)

\* ------------------------------------------------------- preference data
Undef == "undefined"
NoNumber == -1

\* A UserPreference as the client holds it (status in the presentation
\* vocabulary, is_favorite one of "true", "false" and undefined).  origin tells
\* which backend the record was obtained from.
NoPref ==
  [novel_id |-> 0, status |-> Undef, is_favorite |-> Undef,
   current_chapter |-> NoNumber, rating |-> NoNumber, personal_notes |-> Undef,
   date_started |-> Undef, date_completed |-> Undef,
   origin |-> "none"]

\* A preference record as the remote service holds it (user_status in the
\* remote vocabulary).
NoBackendPref ==
  [novel_id |-> 0, user_status |-> Undef, is_favorite |-> Undef,
   current_chapter |-> NoNumber, rating |-> NoNumber, personal_notes |-> Undef,
   date_started |-> Undef, date_completed |-> Undef]

\* api/novels.ts:55-61
FRONTEND_TO_BACKEND_STATUS ==
  ("Reading" :> "reading") @@ ("Wishlist" :> "plan_to_read")
    @@ ("Completed" :> "completed") @@ ("On Hold" :> "on_hold")
    @@ ("Dropped" :> "dropped")

\* 'on_hold' shown as 'OnHold', the spelling without the space
BACKEND_TO_FRONTEND_STATUS_NoSpace ==
  ("reading" :> "Reading") @@ ("plan_to_read" :> "Wishlist")
    @@ ("completed" :> "Completed") @@ ("on_hold" :> "OnHold")
    @@ ("dropped" :> "Dropped")

\* api/novels.ts:63-69
BACKEND_TO_FRONTEND_STATUS ==
  ("reading" :> "Reading") @@ ("plan_to_read" :> "Wishlist")
    @@ ("completed" :> "Completed") @@ ("on_hold" :> "On Hold")
    @@ ("dropped" :> "Dropped")

\* api/novels.ts:188-191
mapStatusToBackend(frontendStatus) ==
  IF frontendStatus = Undef \/ frontendStatus = "" THEN Undef
  ELSE IF frontendStatus \in DOMAIN FRONTEND_TO_BACKEND_STATUS
       THEN FRONTEND_TO_BACKEND_STATUS[frontendStatus]
       ELSE frontendStatus

\* api/novels.ts:193-196
mapStatusToFrontend(backendStatus) ==
  IF backendStatus = Undef \/ backendStatus = "" THEN Undef
  ELSE IF backendStatus \in DOMAIN BACKEND_TO_FRONTEND_STATUS
       THEN BACKEND_TO_FRONTEND_STATUS[backendStatus]
       ELSE backendStatus

\* api/novels.ts:198-203
mapUserPreferenceFromBackend(backendPref) ==
  [novel_id |-> backendPref.novel_id,
   status |-> mapStatusToFrontend(backendPref.user_status),
   is_favorite |-> backendPref.is_favorite,
   current_chapter |-> backendPref.current_chapter,
   rating |-> backendPref.rating,
   personal_notes |-> backendPref.personal_notes,
   date_started |-> backendPref.date_started,
   date_completed |-> backendPref.date_completed,
   origin |-> "remote"]

\* The record the remote service holds after a PATCH of one field.  The
\* client leaves an undefined value out of the body (api/novels.ts:257-264),
\* and sends a status in the remote vocabulary.
PatchBackend(backendPref, field, value) ==
  IF field = "status"
  THEN [backendPref EXCEPT !.user_status = mapStatusToBackend(value)]
  ELSE IF field \in {"current_chapter", "rating"} /\ value = NoNumber THEN backendPref
  ELSE IF field \in {"is_favorite", "personal_notes"} /\ value = Undef THEN backendPref
  ELSE [backendPref EXCEPT ![field] = value]

\* api/novels.ts:383-391  the stored map, {} when it cannot be read
getLocalUserPreferences(readable) ==
  IF readable THEN localPrefs ELSE [n \in Novels |-> NoPref]

\* api/novels.ts:393-400  the stored map after a save, kept when the write fails
saveLocalUserPreferences(prefs, writable) ==
  IF writable THEN prefs ELSE localPrefs

\* api/novels.ts:402-405
getLocalUserPreference(novelId, readable) ==
  getLocalUserPreferences(readable)[novelId]

\* api/novels.ts:426-438  the record updateLocalUserPreference returns
updatedLocalPreference(novelId, field, value, readable) ==
  LET prefs == getLocalUserPreferences(readable)
      existing == IF prefs[novelId] # NoPref THEN prefs[novelId]
                  ELSE [NoPref EXCEPT !.novel_id = novelId, !.origin = "local"]
  IN  [existing EXCEPT ![field] = value]

\* api/novels.ts:440-441  the stored map updateLocalUserPreference leaves
updatedLocalPreferences(novelId, field, value, readable, writable) ==
  saveLocalUserPreferences(
    [getLocalUserPreferences(readable) EXCEPT
       ![novelId] = updatedLocalPreference(novelId, field, value, readable)],
    writable)

\* the negation of a flag that is set only: no record, or no flag, gives false
newFavoriteStatusOfSetFlag(currentPref) ==
  IF currentPref.is_favorite = "false" THEN "true" ELSE "false"

\* user-preferences.ts:112  !currentPref?.is_favorite
newFavoriteStatus(currentPref) ==
  IF currentPref.is_favorite = "true" THEN "false" ELSE "true"

\* A preference call suspended at its await.
PrefCall(op, novel, field, value, stage) ==
  [op |-> op, novel |-> novel, field |-> field, value |-> value, stage |-> stage,
   resp |-> NoBackendPref, all |-> [n \in Novels |-> NoBackendPref]]

\* How a preference call ended: the backend its record came from and whether
\* the local store, when the call used it, could be read and written.
NoPrefOutcome ==
  [op |-> "none", novel |-> 0, result |-> "none", backend |-> "none", storage |-> "unused"]
PrefDone(op, novel, backend, storage) ==
  [op |-> op, novel |-> novel, result |-> "returned", backend |-> backend,
   storage |-> storage]

PrefPending == BagToSet(prefCalls)
PrefSuspend(call) == prefCalls (+) SetToBag({call})
PrefReplace(old, new) == (prefCalls (-) SetToBag({old})) (+) SetToBag({new})
PrefFinish(call) == prefCalls (-) SetToBag({call})

\* The inputs of the per-field upserts.
StatusInputs == {"On Hold"}
RatingInputs == {4}
NotesInputs == {"note"}
ChapterInputs == {3}

\* A record the remote service may hold before the client starts.
SeedBackendPref(n) ==
  [novel_id |-> n, user_status |-> "reading", is_favorite |-> "false",
   current_chapter |-> 1, rating |-> NoNumber, personal_notes |-> Undef,
   date_started |-> "2025-01-05", date_completed |-> Undef]

PrefIdle ==
  /\ preferences = [n \in Novels |-> NoPref]
  /\ prefLoading = FALSE
  /\ prefError = Null
  /\ remotePrefs = [n \in Novels |-> NoBackendPref]
  /\ localPrefs = [n \in Novels |-> NoPref]
  /\ prefCalls = EmptyBag
  /\ prefOutcome = NoPrefOutcome
  /\ issued = 0

\* The catalog store as constructed (stores/novels.ts:20-24), with a remote
\* catalog that holds no record.
CatIdle ==
  /\ novels = <<>>
  /\ novelsLoading = FALSE
  /\ novelsError = Null
  /\ catalog = <<>>
  /\ novelCalls = EmptyBag

\* A statistics payload as the page's check reads it: its shape, what its
\* total_reading_time_minutes field is, and the novel it was asked for.
\* NoStats is null.
NoStats == [shape |-> "null", total |-> "missing", minutes |-> 0, novel |-> 0]

\* No derived store has been read.
NoDerived == [store |-> "none", query |-> <<>>, status |-> "", genre |-> "", value |-> <<>>]

\* No streak has been computed.
NoStreak == [now |-> 0, value |-> -1]

\* The novel page as mounted (part_000:51), before any statistics call.
PageIdle ==
  /\ novelStats = NoStats
  /\ statsLoading = FALSE
  /\ statsCalls = EmptyBag
  /\ statsOutcome = "none"
  /\ derived = NoDerived
  /\ streak = NoStreak

\* -------------------------------------------------------------------- init
SessInit ==
  /\ sessions = <<>>
  /\ activeSessions = [n \in Novels |-> NoSession]
  /\ loading = FALSE
  /\ error = Null
  /\ remote = <<>>
  /\ calls = EmptyBag
  /\ outcome = NoOutcome
  /\ tzOffset = 0
  /\ PrefIdle
  /\ CatIdle
  /\ PageIdle

\* ----------------------------------------------------------------- actions

\* startSession that adopts an open session the service still holds for the
\* novel instead of asking for a new one
StartSessionAdopts(n) ==
  /\ BagCardinality(calls) < MaxCalls
  /\ LET open == {i \in DOMAIN remote : remote[i].novel_id = n /\ ~remote[i].ended}
     IN  IF open # {} /\ activeSessions[n] = NoSession
         THEN /\ activeSessions' = [activeSessions EXCEPT ![n] = remote[CHOOSE i \in open : TRUE]]
              /\ UNCHANGED calls
         ELSE /\ calls' = Suspend(Call("start", n, "none", NoReq))
              /\ UNCHANGED activeSessions
  /\ outcome' = NoOutcome
  /\ UNCHANGED <<sessions, loading, error, remote, tzOffset>>

\* startSession up to its await: the request is sent
StartSession(n) ==
  /\ BagCardinality(calls) < MaxCalls
  /\ calls' = Suspend(Call("start", n, "none", NoReq))
  /\ outcome' = NoOutcome
  /\ UNCHANGED <<sessions, activeSessions, loading, error, remote, tzOffset>>

\* POST /reading-sessions/{novelId}/start answered with a new open session
RemoteStart(call, st) ==
  /\ call.op = "start" /\ call.stage = "sent"
  /\ Len(remote) < MaxSessions
  /\ LET s == [id |-> Len(remote) + 1, novel_id |-> call.novel,
               started_at |-> st, ended |-> FALSE]
     IN  /\ remote' = Append(remote, s)
         /\ calls' = Replace(call, [call EXCEPT !.stage = "ok", !.resp = s])
  /\ outcome' = NoOutcome
  /\ UNCHANGED <<sessions, activeSessions, loading, error, tzOffset>>

\* any request fails: the service is unreachable or answers an error status
RemoteFail(call) ==
  /\ call.stage = "sent"
  /\ calls' = Replace(call, [call EXCEPT !.stage = "fail", !.req = NoReq])
  /\ outcome' = NoOutcome
  /\ UNCHANGED <<sessions, activeSessions, loading, error, remote, tzOffset>>

\* startSession with a catch that records the error and does not rethrow
StartResumeSwallows(call) ==
  /\ call.op = "start" /\ call.stage \in {"ok", "fail"}
  /\ IF call.stage = "ok"
     THEN /\ activeSessions' = [activeSessions EXCEPT ![call.novel] = call.resp]
          /\ sessions' = <<call.resp>> \o sessions
          /\ outcome' = Returned("start", call.novel, <<>>)
          /\ UNCHANGED error
     ELSE /\ error' = "request failed"
          /\ outcome' = Returned("start", call.novel, <<>>)
          /\ UNCHANGED <<activeSessions, sessions>>
  /\ calls' = Finish(call)
  /\ UNCHANGED <<loading, remote, tzOffset>>

\* startSession after its await
StartResume(call) ==
  /\ call.op = "start" /\ call.stage \in {"ok", "fail"}
  /\ IF call.stage = "ok"
     THEN /\ activeSessions' = [activeSessions EXCEPT ![call.novel] = call.resp]
          /\ sessions' = <<call.resp>> \o sessions
          /\ outcome' = Returned("start", call.novel, <<>>)
          /\ UNCHANGED error
     ELSE /\ error' = "request failed"
          /\ outcome' = Threw("start", call.novel, "request failed", <<>>)
          /\ UNCHANGED <<activeSessions, sessions>>
  /\ calls' = Finish(call)
  /\ UNCHANGED <<loading, remote, tzOffset>>

\* endSession up to its await: the checks, the duration, the request
EndSession(n, cb, nowv) ==
  /\ BagCardinality(calls) < MaxCalls
  /\ LET activeSession == getActiveSession(n)
         start == finalStartTime(activeSession.started_at, tzOffset)
     IN  IF activeSession = NoSession
         THEN /\ error' = "No active session found for this novel"
              /\ outcome' = noActiveSession(n)
              /\ UNCHANGED calls
         ELSE IF isNaN(start)
         THEN /\ error' = "Invalid session start time"
              /\ outcome' = Threw("end", n, "Invalid session start time", <<>>)
              /\ UNCHANGED calls
         ELSE /\ calls' = Suspend(Call("end", n, cb,
                   [sid |-> activeSession.id,
                    duration_minutes |-> durationMinutes(nowv - start),
                    started_at |-> activeSession.started_at, now |-> nowv]))
              /\ outcome' = NoOutcome
              /\ UNCHANGED error
  /\ UNCHANGED <<sessions, activeSessions, loading, remote, tzOffset>>

\* PATCH /reading-sessions/{id}/end answered with the closed session
RemoteEnd(call) ==
  /\ call.op = "end" /\ call.stage = "sent"
  /\ LET closed == [remote[call.req.sid] EXCEPT !.ended = TRUE]
     IN  /\ remote' = [remote EXCEPT ![call.req.sid] = closed]
         /\ calls' = Replace(call, [call EXCEPT !.stage = "ok", !.resp = closed,
                                                !.req = NoReq])
  /\ outcome' = NoOutcome
  /\ UNCHANGED <<sessions, activeSessions, loading, error, tzOffset>>

\* endSession after its await
EndResume(call) ==
  /\ call.op = "end" /\ call.stage \in {"ok", "fail"}
  /\ IF call.stage = "ok"
     THEN /\ activeSessions' = unregister(call.novel)
          /\ sessions' = MapSessions(sessions, call.resp)
          /\ IF call.cb = "throws"
             THEN /\ error' = "callback failed"
                  /\ outcome' = Threw("end", call.novel, "callback failed", endEvents(call))
             ELSE /\ outcome' = Returned("end", call.novel, endEvents(call))
                  /\ UNCHANGED error
     ELSE /\ error' = "request failed"
          /\ outcome' = Threw("end", call.novel, "request failed", endEvents(call))
          /\ UNCHANGED <<activeSessions, sessions>>
  /\ calls' = Finish(call)
  /\ UNCHANGED <<loading, remote, tzOffset>>

\* loadSessions up to its await
LoadSessions(filter) ==
  /\ BagCardinality(calls) < MaxCalls
  /\ loading' = TRUE
  /\ error' = Null
  /\ calls' = Suspend(Call("load", filter, "none", NoReq))
  /\ outcome' = NoOutcome
  /\ UNCHANGED <<sessions, activeSessions, remote, tzOffset>>

\* GET /reading-sessions answered with the sessions the service holds
RemoteLoad(call) ==
  /\ call.op = "load" /\ call.stage = "sent"
  /\ calls' = Replace(call, [call EXCEPT !.stage = "ok",
                                         !.list = FilterSessions(remote, call.novel)])
  /\ outcome' = NoOutcome
  /\ UNCHANGED <<sessions, activeSessions, loading, error, remote, tzOffset>>

\* loadSessions after its await
LoadResume(call) ==
  /\ call.op = "load" /\ call.stage \in {"ok", "fail"}
  /\ IF call.stage = "ok"
     THEN /\ sessions' = call.list
          /\ UNCHANGED error
     ELSE /\ error' = "request failed"
          /\ UNCHANGED sessions
  /\ loading' = FALSE
  /\ outcome' = Returned("load", call.novel, <<>>)
  /\ calls' = Finish(call)
  /\ UNCHANGED <<activeSessions, remote, tzOffset>>

\* clear()
Clear ==
  /\ sessions' = <<>>
  /\ activeSessions' = [n \in Novels |-> NoSession]
  /\ loading' = FALSE
  /\ error' = Null
  /\ outcome' = NoOutcome
  /\ UNCHANGED <<remote, calls, tzOffset>>

\* clearError()
ClearError ==
  /\ error' = Null
  /\ outcome' = NoOutcome
  /\ UNCHANGED <<sessions, activeSessions, loading, remote, calls, tzOffset>>

SessNext ==
  \/ \E n \in Novels : StartSession(n) /\ UNCHANGED <<prefVars, catVars, pageVars>>
  \/ \E call \in Pending, st \in CoreStamps : RemoteStart(call, st) /\ UNCHANGED <<prefVars, catVars, pageVars>>
  \/ \E call \in Pending : RemoteFail(call) /\ UNCHANGED <<prefVars, catVars, pageVars>>
  \/ \E call \in Pending : StartResume(call) /\ UNCHANGED <<prefVars, catVars, pageVars>>
  \/ \E n \in Novels, cb \in Callbacks, nowv \in CoreNows : EndSession(n, cb, nowv) /\ UNCHANGED <<prefVars, catVars, pageVars>>
  \/ \E call \in Pending : RemoteEnd(call) /\ UNCHANGED <<prefVars, catVars, pageVars>>
  \/ \E call \in Pending : EndResume(call) /\ UNCHANGED <<prefVars, catVars, pageVars>>
  \/ \E f \in {0} \cup Novels : LoadSessions(f) /\ UNCHANGED <<prefVars, catVars, pageVars>>
  \/ \E call \in Pending : RemoteLoad(call) /\ UNCHANGED <<prefVars, catVars, pageVars>>
  \/ \E call \in Pending : LoadResume(call) /\ UNCHANGED <<prefVars, catVars, pageVars>>
  \/ Clear /\ UNCHANGED <<prefVars, catVars, pageVars>>
  \/ ClearError /\ UNCHANGED <<prefVars, catVars, pageVars>>

SessSpec == SessInit /\ [][SessNext]_vars

\* The sessions of one novel, one call at a time, on a client whose UTC
\* offset is any of TzOffsets, with the whole range of start timestamps and
\* clock values.
TimeInit ==
  /\ sessions = <<>>
  /\ activeSessions = [n \in Novels |-> NoSession]
  /\ loading = FALSE
  /\ error = Null
  /\ remote = <<>>
  /\ calls = EmptyBag
  /\ outcome = NoOutcome
  /\ tzOffset \in TzOffsets
  /\ PrefIdle
  /\ CatIdle
  /\ PageIdle

TimeNext ==
  \/ \E n \in {1} : calls = EmptyBag /\ StartSession(n) /\ UNCHANGED <<prefVars, catVars, pageVars>>
  \/ \E call \in Pending, st \in Stamps : RemoteStart(call, st) /\ UNCHANGED <<prefVars, catVars, pageVars>>
  \/ \E call \in Pending : RemoteFail(call) /\ UNCHANGED <<prefVars, catVars, pageVars>>
  \/ \E call \in Pending : StartResume(call) /\ UNCHANGED <<prefVars, catVars, pageVars>>
  \/ \E n \in {1}, cb \in Callbacks, nowv \in NowValues :
       calls = EmptyBag /\ EndSession(n, cb, nowv) /\ UNCHANGED <<prefVars, catVars, pageVars>>
  \/ \E call \in Pending : RemoteEnd(call) /\ UNCHANGED <<prefVars, catVars, pageVars>>
  \/ \E call \in Pending : EndResume(call) /\ UNCHANGED <<prefVars, catVars, pageVars>>
  \/ Clear /\ UNCHANGED <<prefVars, catVars, pageVars>>

TimeSpec == TimeInit /\ [][TimeNext]_vars

\* ------------------------------------------------------ preference actions

PrefInit ==
  /\ sessions = <<>>
  /\ activeSessions = [n \in Novels |-> NoSession]
  /\ loading = FALSE
  /\ error = Null
  /\ remote = <<>>
  /\ calls = EmptyBag
  /\ outcome = NoOutcome
  /\ tzOffset = 0
  /\ preferences = [n \in Novels |-> NoPref]
  /\ prefLoading = FALSE
  /\ prefError = Null
  /\ remotePrefs \in [Novels -> {NoBackendPref} \cup {SeedBackendPref(n) : n \in Novels}]
  /\ \A n \in Novels : remotePrefs[n] \in {NoBackendPref, SeedBackendPref(n)}
  /\ localPrefs = [n \in Novels |-> NoPref]
  /\ prefCalls = EmptyBag
  /\ prefOutcome = NoPrefOutcome
  /\ issued = 0
  /\ CatIdle
  /\ PageIdle

\* A per-field upsert up to its await: the PATCH request is sent.
Upsert(op, novelId, field, value) ==
  /\ issued < MaxPrefCalls
  /\ BagCardinality(prefCalls) < MaxCalls
  /\ issued' = issued + 1
  /\ prefCalls' = PrefSuspend(PrefCall(op, novelId, field, value, "sent"))
  /\ prefOutcome' = NoPrefOutcome
  /\ UNCHANGED <<preferences, prefLoading, prefError, remotePrefs, localPrefs>>

\* user-preferences.ts:73-75, api/novels.ts:291-297
SetUserStatus(novelId, status) == Upsert("setUserStatus", novelId, "status", status)

\* user-preferences.ts:151-153, api/novels.ts:254-269
SetRating(novelId, rating) == Upsert("setRating", novelId, "rating", rating)

\* user-preferences.ts:187-189, api/novels.ts:254-269
SetPersonalNotes(novelId, notes) ==
  Upsert("setPersonalNotes", novelId, "personal_notes", notes)

\* user-preferences.ts:223-225, api/novels.ts:306-311
UpdateProgress(novelId, currentChapter) ==
  Upsert("updateProgress", novelId, "current_chapter", currentChapter)

\* toggleFavorite up to its first await: GET /user-preferences/{novelId}
ToggleFavorite(novelId) ==
  /\ issued < MaxPrefCalls
  /\ BagCardinality(prefCalls) < MaxCalls
  /\ issued' = issued + 1
  /\ prefCalls' = PrefSuspend(PrefCall("toggleFavorite", novelId, "is_favorite", Undef,
                                       "get_sent"))
  /\ prefOutcome' = NoPrefOutcome
  /\ UNCHANGED <<preferences, prefLoading, prefError, remotePrefs, localPrefs>>

\* GET /user-preferences/{novelId} answered: the record, or not found
RemoteGetPref(call) ==
  /\ call.stage = "get_sent"
  /\ prefCalls' = PrefReplace(call,
       IF remotePrefs[call.novel] # NoBackendPref
       THEN [call EXCEPT !.stage = "get_ok", !.resp = remotePrefs[call.novel]]
       ELSE [call EXCEPT !.stage = "get_notfound"])
  /\ prefOutcome' = NoPrefOutcome
  /\ UNCHANGED <<preferences, prefLoading, prefError, remotePrefs, localPrefs, issued>>

\* PATCH /user-preferences/{novelId}[/status|/progress] answered: the
\* updated record, or not found
RemotePatchPref(call) ==
  /\ call.op # "loadPreferences" /\ call.stage = "sent"
  /\ IF remotePrefs[call.novel] # NoBackendPref
     THEN LET patched == PatchBackend(remotePrefs[call.novel], call.field, call.value)
          IN  /\ remotePrefs' = [remotePrefs EXCEPT ![call.novel] = patched]
              /\ prefCalls' = PrefReplace(call, [call EXCEPT !.stage = "ok", !.resp = patched])
     ELSE /\ prefCalls' = PrefReplace(call, [call EXCEPT !.stage = "notfound"])
          /\ UNCHANGED remotePrefs
  /\ prefOutcome' = NoPrefOutcome
  /\ UNCHANGED <<preferences, prefLoading, prefError, localPrefs, issued>>

\* GET /user-preferences answered with every record the service holds
RemoteListPrefs(call) ==
  /\ call.op = "loadPreferences" /\ call.stage = "sent"
  /\ prefCalls' = PrefReplace(call, [call EXCEPT !.stage = "ok", !.all = remotePrefs])
  /\ prefOutcome' = NoPrefOutcome
  /\ UNCHANGED <<preferences, prefLoading, prefError, remotePrefs, localPrefs, issued>>

\* a preference request fails other than by "not found"
RemotePrefError(call) ==
  /\ call.stage \in {"sent", "get_sent"}
  /\ prefCalls' = PrefReplace(call,
       [call EXCEPT !.stage = IF call.stage = "sent" THEN "error" ELSE "get_error"])
  /\ prefOutcome' = NoPrefOutcome
  /\ UNCHANGED <<preferences, prefLoading, prefError, remotePrefs, localPrefs, issued>>

\* user-preferences.ts:63-70, api/novels.ts:206-217  the record toggleFavorite
\* reads: the remote one, the local one after "not found", null after an error
currentPreference(call, readable) ==
  CASE call.stage = "get_ok" -> mapUserPreferenceFromBackend(call.resp)
    [] call.stage = "get_notfound" -> getLocalUserPreference(call.novel, readable)
    [] OTHER -> NoPref

\* toggleFavorite between its two awaits (user-preferences.ts:111-116)
ToggleResume(call, readable) ==
  /\ call.stage \in {"get_ok", "get_notfound", "get_error"}
  /\ prefCalls' = PrefReplace(call,
       PrefCall("toggleFavorite", call.novel, "is_favorite",
                newFavoriteStatus(currentPreference(call, readable)), "sent"))
  /\ prefOutcome' = NoPrefOutcome
  /\ UNCHANGED <<preferences, prefLoading, prefError, remotePrefs, localPrefs, issued>>

\* A per-field upsert that keeps the record the map already holds
UpsertResumeFirstWins(call, readable, writable) ==
  /\ call.op # "loadPreferences"
  /\ call.stage \in {"ok", "notfound", "error"}
  /\ LET updated ==
           IF call.stage = "ok" THEN mapUserPreferenceFromBackend(call.resp)
           ELSE updatedLocalPreference(call.novel, call.field, call.value, readable)
     IN  /\ preferences' = IF preferences[call.novel] # NoPref THEN preferences
                         ELSE [preferences EXCEPT ![call.novel] = updated]
         /\ localPrefs' =
              IF call.stage = "ok" THEN localPrefs
              ELSE updatedLocalPreferences(call.novel, call.field, call.value,
                                           readable, writable)
         /\ prefOutcome' = PrefDone(call.op, call.novel, updated.origin,
                IF call.stage = "ok" THEN "unused"
                ELSE IF readable /\ writable THEN "ok" ELSE "failed")
  /\ prefCalls' = PrefFinish(call)
  /\ UNCHANGED <<prefLoading, prefError, remotePrefs, issued>>

\* A per-field upsert after its await: the answer of the service, or the
\* local fallback after any failure of the request (api/novels.ts:270-275,
\* 298-303, 312-317), then the in-memory map (user-preferences.ts:76-82).
\* The api method catches every error of its request, so the store's catch
\* (user-preferences.ts:83-105: createUserPreference after a message with
\* '404', the error field otherwise) is never entered and prefError is left
\* alone.
UpsertResume(call, readable, writable) ==
  /\ call.op # "loadPreferences"
  /\ call.stage \in {"ok", "notfound", "error"}
  /\ LET updated ==
           IF call.stage = "ok" THEN mapUserPreferenceFromBackend(call.resp)
           ELSE updatedLocalPreference(call.novel, call.field, call.value, readable)
     IN  /\ preferences' = [preferences EXCEPT ![call.novel] = updated]
         /\ localPrefs' =
              IF call.stage = "ok" THEN localPrefs
              ELSE updatedLocalPreferences(call.novel, call.field, call.value,
                                           readable, writable)
         /\ prefOutcome' = PrefDone(call.op, call.novel, updated.origin,
                IF call.stage = "ok" THEN "unused"
                ELSE IF readable /\ writable THEN "ok" ELSE "failed")
  /\ prefCalls' = PrefFinish(call)
  /\ UNCHANGED <<prefLoading, prefError, remotePrefs, issued>>

\* loadPreferences up to its await (user-preferences.ts:36-40)
LoadPreferences ==
  /\ issued < MaxPrefCalls
  /\ BagCardinality(prefCalls) < MaxCalls
  /\ issued' = issued + 1
  /\ prefLoading' = TRUE
  /\ prefError' = Null
  /\ prefCalls' = PrefSuspend(PrefCall("loadPreferences", 0, "none", Undef, "sent"))
  /\ prefOutcome' = NoPrefOutcome
  /\ UNCHANGED <<preferences, remotePrefs, localPrefs>>

\* api/novels.ts:219-228  the list getUserPreferences returns, as a map by
\* novel id (user-preferences.ts:41-44)
loadedPreferences(call, readable) ==
  IF call.stage = "ok"
  THEN [n \in Novels |->
          IF call.all[n] # NoBackendPref THEN mapUserPreferenceFromBackend(call.all[n])
          ELSE NoPref]
  ELSE getLocalUserPreferences(readable)

\* loadPreferences after its await (user-preferences.ts:41-50)
LoadPreferencesResume(call, readable) ==
  /\ call.op = "loadPreferences"
  /\ call.stage \in {"ok", "error"}
  /\ preferences' = loadedPreferences(call, readable)
  /\ prefLoading' = FALSE
  /\ prefOutcome' = PrefDone("loadPreferences", 0,
                             IF call.stage = "ok" THEN "remote" ELSE "local",
                             IF call.stage = "ok" THEN "unused"
                             ELSE IF readable THEN "ok" ELSE "failed")
  /\ prefCalls' = PrefFinish(call)
  /\ UNCHANGED <<prefError, remotePrefs, localPrefs, issued>>

PrefNext ==
  \/ \E n \in Novels, v \in StatusInputs : SetUserStatus(n, v) /\ UNCHANGED <<sessVars, catVars, pageVars>>
  \/ \E n \in Novels, v \in RatingInputs \cup {NoNumber} : SetRating(n, v) /\ UNCHANGED <<sessVars, catVars, pageVars>>
  \/ \E n \in Novels, v \in NotesInputs : SetPersonalNotes(n, v) /\ UNCHANGED <<sessVars, catVars, pageVars>>
  \/ \E n \in Novels, v \in ChapterInputs : UpdateProgress(n, v) /\ UNCHANGED <<sessVars, catVars, pageVars>>
  \/ \E n \in Novels : ToggleFavorite(n) /\ UNCHANGED <<sessVars, catVars, pageVars>>
  \/ \E call \in PrefPending : RemoteGetPref(call) /\ UNCHANGED <<sessVars, catVars, pageVars>>
  \/ \E call \in PrefPending : RemotePatchPref(call) /\ UNCHANGED <<sessVars, catVars, pageVars>>
  \/ \E call \in PrefPending : RemoteListPrefs(call) /\ UNCHANGED <<sessVars, catVars, pageVars>>
  \/ \E call \in PrefPending : RemotePrefError(call) /\ UNCHANGED <<sessVars, catVars, pageVars>>
  \/ \E call \in PrefPending, rd \in BOOLEAN : ToggleResume(call, rd) /\ UNCHANGED <<sessVars, catVars, pageVars>>
  \/ \E call \in PrefPending, rd \in BOOLEAN, wr \in BOOLEAN :
       UpsertResume(call, rd, wr) /\ UNCHANGED <<sessVars, catVars, pageVars>>
  \/ LoadPreferences /\ UNCHANGED <<sessVars, catVars, pageVars>>
  \/ \E call \in PrefPending, rd \in BOOLEAN :
       LoadPreferencesResume(call, rd) /\ UNCHANGED <<sessVars, catVars, pageVars>>

PrefSpec == PrefInit /\ [][PrefNext]_vars

\* ------------------------------------------------- status vocabularies

\* user-preferences.ts:8-14
USER_STATUSES == {"Reading", "Wishlist", "Completed", "On Hold", "Dropped"}

\* The statuses a caller passes to setUserStatus: the five presentation
\* statuses and a value outside the vocabulary.
FrontendStatusInputs == USER_STATUSES \cup {"Archived"}

\* The user_status values the remote service may hold: the five remote
\* values and a value outside the vocabulary.
BackendStatusInputs ==
  {"reading", "plan_to_read", "completed", "on_hold", "dropped"} \cup {"paused"}

\* The status of one novel, one call at a time: the remote service holds no
\* record of it or a record with any of the remote status values.
StatusInit ==
  /\ sessions = <<>>
  /\ activeSessions = [n \in Novels |-> NoSession]
  /\ loading = FALSE
  /\ error = Null
  /\ remote = <<>>
  /\ calls = EmptyBag
  /\ outcome = NoOutcome
  /\ tzOffset = 0
  /\ preferences = [n \in Novels |-> NoPref]
  /\ prefLoading = FALSE
  /\ prefError = Null
  /\ \E seed \in {NoBackendPref}
                 \cup {[SeedBackendPref(1) EXCEPT !.user_status = r] :
                        r \in BackendStatusInputs} :
       remotePrefs = [n \in Novels |-> IF n = 1 THEN seed ELSE NoBackendPref]
  /\ localPrefs = [n \in Novels |-> NoPref]
  /\ prefCalls = EmptyBag
  /\ prefOutcome = NoPrefOutcome
  /\ issued = 0
  /\ CatIdle
  /\ PageIdle

StatusNext ==
  \/ \E v \in FrontendStatusInputs :
       prefCalls = EmptyBag /\ SetUserStatus(1, v) /\ UNCHANGED <<sessVars, catVars, pageVars>>
  \/ \E call \in PrefPending : RemotePatchPref(call) /\ UNCHANGED <<sessVars, catVars, pageVars>>
  \/ \E call \in PrefPending : RemoteListPrefs(call) /\ UNCHANGED <<sessVars, catVars, pageVars>>
  \/ \E call \in PrefPending : RemotePrefError(call) /\ UNCHANGED <<sessVars, catVars, pageVars>>
  \/ \E call \in PrefPending, rd \in BOOLEAN, wr \in BOOLEAN :
       UpsertResume(call, rd, wr) /\ UNCHANGED <<sessVars, catVars, pageVars>>
  \/ prefCalls = EmptyBag /\ LoadPreferences /\ UNCHANGED <<sessVars, catVars, pageVars>>
  \/ \E call \in PrefPending, rd \in BOOLEAN :
       LoadPreferencesResume(call, rd) /\ UNCHANGED <<sessVars, catVars, pageVars>>

StatusSpec == StatusInit /\ [][StatusNext]_vars

\* ----------------------------------------------------------- catalog store

\* A Novel of the catalog (types/novel.ts:1-14); the fields the core reads.
\* title, author and description are strings: sequences of characters.
Novel(n) ==
  [id |-> n,
   title |-> << <<"O", "v", "e", "r">>, <<"Z", "e", "r", "o">> >>[((n - 1) % 2) + 1],
   author |-> << <<"M", "a", "r", "u">>, <<"N", "a", "g", "a">> >>[((n - 1) % 2) + 1],
   description |-> << <<>>, <<"A", " ", "m", "a", "g", "e">> >>[((n - 1) % 2) + 1],
   status |-> "ongoing",
   genres |-> IF n % 2 = 1 THEN {"Fantasy"} ELSE {"Fantasy", "Drama"}]

\* The lists of at most MaxNovel records with distinct ids the remote
\* catalog may hold.
Catalogs ==
  {list \in UNION {[1..k -> {Novel(n) : n \in Novels}] : k \in 0..MaxNovel} :
     \A i \in DOMAIN list, j \in DOMAIN list : list[i] = list[j] => i = j}

\* A catalog call suspended at its await.
NovelCall(op) == [op |-> op, stage |-> "sent", list |-> <<>>, id |-> 0]
NovelPending == BagToSet(novelCalls)

\* user-preferences.ts:251-264 without the two date fields
getUserNovelDataNoDates(novelId, prefs) ==
  LET pref == IF novelId \in DOMAIN prefs THEN prefs[novelId] ELSE NoPref
  IN  IF pref = NoPref
      THEN [userStatus |-> Undef, isFavorite |-> Undef, currentChapter |-> NoNumber,
            rating |-> NoNumber, personalNotes |-> Undef,
            dateStarted |-> Undef, dateCompleted |-> Undef]
      ELSE [userStatus |-> pref.status, isFavorite |-> pref.is_favorite,
            currentChapter |-> pref.current_chapter, rating |-> pref.rating,
            personalNotes |-> pref.personal_notes,
            dateStarted |-> Undef, dateCompleted |-> Undef]

\* user-preferences.ts:251-264  {} when the map has no record of the novel:
\* every field of the result is then undefined
getUserNovelData(novelId, prefs) ==
  LET pref == IF novelId \in DOMAIN prefs THEN prefs[novelId] ELSE NoPref
  IN  IF pref = NoPref
      THEN [userStatus |-> Undef, isFavorite |-> Undef, currentChapter |-> NoNumber,
            rating |-> NoNumber, personalNotes |-> Undef,
            dateStarted |-> Undef, dateCompleted |-> Undef]
      ELSE [userStatus |-> pref.status, isFavorite |-> pref.is_favorite,
            currentChapter |-> pref.current_chapter, rating |-> pref.rating,
            personalNotes |-> pref.personal_notes,
            dateStarted |-> pref.date_started,
            dateCompleted |-> pref.date_completed]

\* stores/novels.ts:263-279  the EnhancedNovel of one catalog record
EnhancedNovel(novel) ==
  LET userData == getUserNovelData(novel.id, preferences)
      userPreference == IF novel.id \in DOMAIN preferences
                        THEN preferences[novel.id] ELSE NoPref
  IN  [id |-> novel.id, title |-> novel.title, author |-> novel.author,
       description |-> novel.description, status |-> novel.status,
       genres |-> novel.genres,
       userPreference |-> userPreference,
       userStatus |-> userData.userStatus,
       isFavorite |-> userData.isFavorite,
       currentChapter |-> userData.currentChapter,
       rating |-> userData.rating,
       personalNotes |-> userData.personalNotes,
       dateStarted |-> userData.dateStarted,
       dateCompleted |-> userData.dateCompleted]

\* an inner join: only the records that have a preference
enhancedNovelsInnerJoin ==
  LET withPref == SelectSeq(novels, LAMBDA novel : preferences[novel.id] # NoPref)
  IN  [i \in 1..Len(withPref) |-> EnhancedNovel(withPref[i])]

\* stores/novels.ts:260-281  the derived store: its value in the current
\* state of the catalog store and the preference store
enhancedNovels ==
  [i \in 1..Len(novels) |-> EnhancedNovel(novels[i])]

\* loadNovels up to its await (stores/novels.ts:40-44)
LoadNovels ==
  /\ BagCardinality(novelCalls) < MaxCalls
  /\ novelsLoading' = TRUE
  /\ novelsError' = Null
  /\ novelCalls' = novelCalls (+) SetToBag({NovelCall("loadNovels")})
  /\ UNCHANGED <<novels, catalog, prefVars>>

\* GET /novels answered with the catalog
RemoteGetNovels(call) ==
  /\ call.op = "loadNovels" /\ call.stage = "sent"
  /\ novelCalls' = (novelCalls (-) SetToBag({call}))
                     (+) SetToBag({[call EXCEPT !.stage = "ok", !.list = catalog]})
  /\ UNCHANGED <<novels, novelsLoading, novelsError, catalog, prefVars>>

\* a catalog request fails
RemoteNovelsFail(call) ==
  /\ call.stage = "sent"
  /\ novelCalls' = (novelCalls (-) SetToBag({call}))
                     (+) SetToBag({[call EXCEPT !.stage = "fail"]})
  /\ UNCHANGED <<novels, novelsLoading, novelsError, catalog, prefVars>>

\* loadNovels after its await (stores/novels.ts:46-62): the list is replaced
\* and loadPreferences is called, or the error is kept and rethrown
LoadNovelsResume(call) ==
  /\ call.op = "loadNovels" /\ call.stage \in {"ok", "fail"}
  /\ IF call.stage = "ok"
     THEN /\ novels' = call.list
          /\ novelsLoading' = FALSE
          /\ UNCHANGED novelsError
          /\ LoadPreferences
     ELSE /\ novelsLoading' = FALSE
          /\ novelsError' = "request failed"
          /\ UNCHANGED <<novels, prefVars>>
  /\ novelCalls' = novelCalls (-) SetToBag({call})
  /\ UNCHANGED catalog

\* The catalog store and the preference store side by side, one operation
\* at a time, over every catalog of Catalogs.
ViewInit ==
  /\ sessions = <<>>
  /\ activeSessions = [n \in Novels |-> NoSession]
  /\ loading = FALSE
  /\ error = Null
  /\ remote = <<>>
  /\ calls = EmptyBag
  /\ outcome = NoOutcome
  /\ tzOffset = 0
  /\ preferences = [n \in Novels |-> NoPref]
  /\ prefLoading = FALSE
  /\ prefError = Null
  /\ remotePrefs \in [Novels -> {NoBackendPref} \cup {SeedBackendPref(n) : n \in Novels}]
  /\ \A n \in Novels : remotePrefs[n] \in {NoBackendPref, SeedBackendPref(n)}
  /\ localPrefs = [n \in Novels |-> NoPref]
  /\ prefCalls = EmptyBag
  /\ prefOutcome = NoPrefOutcome
  /\ issued = 0
  /\ novels = <<>>
  /\ novelsLoading = FALSE
  /\ novelsError = Null
  /\ catalog \in Catalogs
  /\ novelCalls = EmptyBag
  /\ PageIdle

\* No call of either store is suspended.
Quiet == prefCalls = EmptyBag /\ novelCalls = EmptyBag

ViewNext ==
  \/ Quiet /\ LoadNovels /\ UNCHANGED <<sessVars, pageVars>>
  \/ \E call \in NovelPending : RemoteGetNovels(call) /\ UNCHANGED <<sessVars, pageVars>>
  \/ \E call \in NovelPending : RemoteNovelsFail(call) /\ UNCHANGED <<sessVars, pageVars>>
  \/ \E call \in NovelPending : LoadNovelsResume(call) /\ UNCHANGED <<sessVars, pageVars>>
  \/ \E n \in Novels, v \in StatusInputs :
       Quiet /\ SetUserStatus(n, v) /\ UNCHANGED <<sessVars, catVars, pageVars>>
  \/ \E n \in Novels, v \in ChapterInputs :
       Quiet /\ UpdateProgress(n, v) /\ UNCHANGED <<sessVars, catVars, pageVars>>
  \/ \E n \in Novels :
       Quiet /\ ToggleFavorite(n) /\ UNCHANGED <<sessVars, catVars, pageVars>>
  \/ \E call \in PrefPending : RemoteGetPref(call) /\ UNCHANGED <<sessVars, catVars, pageVars>>
  \/ \E call \in PrefPending : RemotePatchPref(call) /\ UNCHANGED <<sessVars, catVars, pageVars>>
  \/ \E call \in PrefPending : RemoteListPrefs(call) /\ UNCHANGED <<sessVars, catVars, pageVars>>
  \/ \E call \in PrefPending : RemotePrefError(call) /\ UNCHANGED <<sessVars, catVars, pageVars>>
  \/ \E call \in PrefPending, rd \in BOOLEAN :
       ToggleResume(call, rd) /\ UNCHANGED <<sessVars, catVars, pageVars>>
  \/ \E call \in PrefPending, rd \in BOOLEAN, wr \in BOOLEAN :
       UpsertResume(call, rd, wr) /\ UNCHANGED <<sessVars, catVars, pageVars>>
  \/ \E call \in PrefPending, rd \in BOOLEAN :
       LoadPreferencesResume(call, rd) /\ UNCHANGED <<sessVars, catVars, pageVars>>

ViewSpec == ViewInit /\ [][ViewNext]_vars

\* ------------------------------------------------------------- deleteNovel

\* api/novels.ts:445-449  the stored map after deleteLocalUserPreference
deleteLocalUserPreference(novelId, readable, writable) ==
  saveLocalUserPreferences(
    [getLocalUserPreferences(readable) EXCEPT ![novelId] = NoPref], writable)

\* deleteNovel up to its first await (stores/novels.ts:118-122)
DeleteNovel(id) ==
  /\ BagCardinality(novelCalls) < MaxCalls
  /\ novelsLoading' = TRUE
  /\ novelsError' = Null
  /\ novelCalls' = novelCalls (+) SetToBag({[NovelCall("deleteNovel") EXCEPT !.id = id]})
  /\ UNCHANGED <<novels, catalog, prefVars>>

\* DELETE /novels/{id} answered: the service no longer lists the novel
RemoteDeleteNovel(call) ==
  /\ call.op = "deleteNovel" /\ call.stage = "sent"
  /\ \E i \in DOMAIN catalog : catalog[i].id = call.id
  /\ catalog' = SelectSeq(catalog, LAMBDA novel : novel.id # call.id)
  /\ novelCalls' = (novelCalls (-) SetToBag({call}))
                     (+) SetToBag({[call EXCEPT !.stage = "ok"]})
  /\ UNCHANGED <<novels, novelsLoading, novelsError, prefVars>>

\* deleteNovel after api.deleteNovel (stores/novels.ts:123-145): the novel
\* leaves the list and DELETE /user-preferences/{id} is sent, or the error is
\* kept and rethrown
DeleteNovelResume(call) ==
  /\ call.op = "deleteNovel" /\ call.stage \in {"ok", "fail"}
  /\ IF call.stage = "ok"
     THEN /\ novels' = SelectSeq(novels, LAMBDA novel : novel.id # call.id)
          /\ novelsLoading' = FALSE
          /\ UNCHANGED novelsError
          /\ novelCalls' = (novelCalls (-) SetToBag({call}))
                             (+) SetToBag({[call EXCEPT !.stage = "pref_sent"]})
     ELSE /\ novelsLoading' = FALSE
          /\ novelsError' = "request failed"
          /\ novelCalls' = novelCalls (-) SetToBag({call})
          /\ UNCHANGED novels
  /\ UNCHANGED <<catalog, prefVars>>

\* DELETE /user-preferences/{id} answered (api/novels.ts:279-282)
RemoteDeletePref(call) ==
  /\ call.op = "deleteNovel" /\ call.stage = "pref_sent"
  /\ remotePrefs' = [remotePrefs EXCEPT ![call.id] = NoBackendPref]
  /\ novelCalls' = (novelCalls (-) SetToBag({call}))
                     (+) SetToBag({[call EXCEPT !.stage = "pref_ok"]})
  /\ UNCHANGED <<novels, novelsLoading, novelsError, catalog, preferences, prefLoading,
                 prefError, localPrefs, prefCalls, prefOutcome, issued>>

\* DELETE /user-preferences/{id} fails
RemoteDeletePrefFail(call) ==
  /\ call.op = "deleteNovel" /\ call.stage = "pref_sent"
  /\ novelCalls' = (novelCalls (-) SetToBag({call}))
                     (+) SetToBag({[call EXCEPT !.stage = "pref_fail"]})
  /\ UNCHANGED <<novels, novelsLoading, novelsError, catalog, prefVars>>

\* deleteNovel after api.deleteUserPreference (api/novels.ts:283-287,
\* stores/novels.ts:131-136): a failed request falls back to the local store;
\* the preference store is not told
DeletePrefResume(call, readable, writable) ==
  /\ call.op = "deleteNovel" /\ call.stage \in {"pref_ok", "pref_fail"}
  /\ localPrefs' = IF call.stage = "pref_fail"
                   THEN deleteLocalUserPreference(call.id, readable, writable)
                   ELSE localPrefs
  /\ novelCalls' = novelCalls (-) SetToBag({call})
  /\ UNCHANGED <<novels, novelsLoading, novelsError, catalog, preferences, prefLoading,
                 prefError, remotePrefs, prefCalls, prefOutcome, issued>>

\* The library page: the catalog is loaded, statuses are set and novels are
\* deleted, one operation at a time.
DeleteNext ==
  \/ Quiet /\ LoadNovels /\ UNCHANGED <<sessVars, pageVars>>
  \/ \E call \in NovelPending : RemoteGetNovels(call) /\ UNCHANGED <<sessVars, pageVars>>
  \/ \E call \in NovelPending : RemoteNovelsFail(call) /\ UNCHANGED <<sessVars, pageVars>>
  \/ \E call \in NovelPending : LoadNovelsResume(call) /\ UNCHANGED <<sessVars, pageVars>>
  \/ \E n \in Novels, v \in StatusInputs :
       Quiet /\ SetUserStatus(n, v) /\ UNCHANGED <<sessVars, catVars, pageVars>>
  \/ \E call \in PrefPending : RemotePatchPref(call) /\ UNCHANGED <<sessVars, catVars, pageVars>>
  \/ \E call \in PrefPending : RemoteListPrefs(call) /\ UNCHANGED <<sessVars, catVars, pageVars>>
  \/ \E call \in PrefPending : RemotePrefError(call) /\ UNCHANGED <<sessVars, catVars, pageVars>>
  \/ \E call \in PrefPending, rd \in BOOLEAN, wr \in BOOLEAN :
       UpsertResume(call, rd, wr) /\ UNCHANGED <<sessVars, catVars, pageVars>>
  \/ \E call \in PrefPending, rd \in BOOLEAN :
       LoadPreferencesResume(call, rd) /\ UNCHANGED <<sessVars, catVars, pageVars>>
  \/ \E id \in Novels : Quiet /\ DeleteNovel(id) /\ UNCHANGED <<sessVars, pageVars>>
  \/ \E call \in NovelPending : RemoteDeleteNovel(call) /\ UNCHANGED <<sessVars, pageVars>>
  \/ \E call \in NovelPending : DeleteNovelResume(call) /\ UNCHANGED <<sessVars, pageVars>>
  \/ \E call \in NovelPending : RemoteDeletePref(call) /\ UNCHANGED <<sessVars, pageVars>>
  \/ \E call \in NovelPending : RemoteDeletePrefFail(call) /\ UNCHANGED <<sessVars, pageVars>>
  \/ \E call \in NovelPending, rd \in BOOLEAN, wr \in BOOLEAN :
       DeletePrefResume(call, rd, wr) /\ UNCHANGED <<sessVars, pageVars>>

DeleteSpec == ViewInit /\ [][DeleteNext]_vars

\* ------------------------------------------------------------------ streak

\* date.setHours(0, 0, 0, 0): the instant of the local midnight that opens
\* the local day of instant t
setHoursZero(t, tz) ==
  LET local == t + tz
  IN  (local - (local % MsPerDay)) - tz

\* new Date(session.started_at).getTime()
startedAtTime(session, tz) == DateParse(session.started_at, tz)

\* Array.prototype.sort with (a, b) => time(b) - time(a): a stable sort, most
\* recent first.  InsertSession puts session s behind every element that is
\* not older than s.
RECURSIVE InsertSession(_, _, _)
InsertSession(s, sorted, tz) ==
  IF sorted = <<>> THEN <<s>>
  ELSE IF startedAtTime(Head(sorted), tz) >= startedAtTime(s, tz)
       THEN <<Head(sorted)>> \o InsertSession(s, Tail(sorted), tz)
       ELSE <<s>> \o sorted

RECURSIVE sortedSessions(_, _)
sortedSessions(list, tz) ==
  IF list = <<>> THEN <<>>
  ELSE InsertSession(list[Len(list)], sortedSessions(SubSeq(list, 1, Len(list) - 1), tz), tz)

\* reading-sessions.ts:284-298  the loop from element i on, with the count
\* reached so far
RECURSIVE StreakLoop(_, _, _, _, _)
StreakLoop(sorted, i, count, currentDate, tz) ==
  IF i > Len(sorted) THEN count
  ELSE LET sessionDate == setHoursZero(startedAtTime(sorted[i], tz), tz)
           daysDiff == (currentDate - sessionDate) \div MsPerDay
       IN  IF daysDiff = count THEN StreakLoop(sorted, i + 1, count + 1, currentDate, tz)
           ELSE IF daysDiff = count + 1
                THEN StreakLoop(sorted, i + 1, count + 1, currentDate, tz)
                ELSE count

\* reading-sessions.ts:272-301
calculateReadingStreak(list, tz, nowv) ==
  IF Len(list) = 0 THEN 0
  ELSE StreakLoop(sortedSessions(list, tz), 1, 0, setHoursZero(nowv, tz), tz)

\* The start timestamps of the sessions a streak is computed over: one per
\* day, at 10:00, on the days 0..MaxStreakDay; today is day MaxStreakDay.
StreakStamps == {Naive(d * MsPerDay + 10 * MsPerHour) : d \in 0..MaxStreakDay}

\* The client's clock when the streak is computed: today, half an hour after
\* UTC midnight, at noon, and half an hour before UTC midnight.
StreakNows ==
  {MaxStreakDay * MsPerDay + t :
     t \in {MsPerHour \div 2, 12 * MsPerHour, 23 * MsPerHour + MsPerHour \div 2}}

\* The session lists of at most MaxStreakSessions sessions, in any order.
StreakLists ==
  UNION {[1..k -> {[id |-> 0, novel_id |-> 1, started_at |-> st, ended |-> TRUE] :
                     st \in StreakStamps}] : k \in 0..MaxStreakSessions}

\* The streak of any loaded session list, on a client with any of the UTC
\* offsets of TzOffsets.
StreakInit ==
  /\ sessions \in StreakLists
  /\ activeSessions = [n \in Novels |-> NoSession]
  /\ loading = FALSE
  /\ error = Null
  /\ remote = <<>>
  /\ calls = EmptyBag
  /\ outcome = NoOutcome
  /\ tzOffset \in TzOffsets
  /\ PrefIdle
  /\ CatIdle
  /\ PageIdle

\* a caller computes the streak of the loaded sessions at clock value nowv
CalculateReadingStreak(nowv) ==
  /\ streak' = [now |-> nowv, value |-> calculateReadingStreak(sessions, tzOffset, nowv)]
  /\ UNCHANGED <<novelStats, statsLoading, statsCalls, statsOutcome, derived>>

StreakNext ==
  \E nowv \in StreakNows :
    CalculateReadingStreak(nowv) /\ UNCHANGED <<sessVars, prefVars, catVars>>

StreakSpec == StreakInit /\ [][StreakNext]_vars

\* ------------------------------------------- the novel page's statistics

\* The bodies GET /reading-statistics?novel_id=n can carry (api/novels.ts:
\* 350-352 parses any JSON): an object with a numeric total, an object
\* without the field or with a string in it, an array, null, a bare string.
\* Only an object has fields.
StatsPayloads(n) ==
  {[shape |-> "object", total |-> "number", minutes |-> m, novel |-> n] : m \in {0, 45}}
    \cup {[shape |-> "object", total |-> t, minutes |-> 0, novel |-> n] : t \in {"missing", "string"}}
    \cup {[shape |-> sh, total |-> "missing", minutes |-> 0, novel |-> n] :
            sh \in {"array", "null", "string"}}

\* part_000:139-144  the page's test of the payload: truthy, typeof 'object',
\* not an array, typeof total_reading_time_minutes 'number'
isValidStatsNoFieldCheck(stats) ==
  /\ stats.shape \notin {"null"}
  /\ stats.shape \in {"object", "array"}
  /\ stats.shape # "array"

isValidStats(stats) ==
  /\ stats.shape \notin {"null"}
  /\ stats.shape \in {"object", "array"}
  /\ stats.shape # "array"
  /\ stats.total = "number"

StatsCall(id) == [novel |-> id, stage |-> "sent", payload |-> NoStats]
StatsPending == BagToSet(statsCalls)

\* loadNovelStats up to its await (part_000:131-136)
LoadNovelStats(id) ==
  /\ BagCardinality(statsCalls) < MaxCalls
  /\ statsLoading' = TRUE
  /\ statsCalls' = statsCalls (+) SetToBag({StatsCall(id)})
  /\ statsOutcome' = "none"
  /\ UNCHANGED <<novelStats, derived, streak>>

\* the statistics request is answered with a body
RemoteStats(call, payload) ==
  /\ call.stage = "sent"
  /\ statsCalls' = (statsCalls (-) SetToBag({call}))
                     (+) SetToBag({[call EXCEPT !.stage = "ok", !.payload = payload]})
  /\ statsOutcome' = "none"
  /\ UNCHANGED <<novelStats, statsLoading, derived, streak>>

\* the statistics request fails: request() throws, and the store's
\* getNovelStatistics logs and rethrows (reading-sessions.ts:213-220)
RemoteStatsFail(call) ==
  /\ call.stage = "sent"
  /\ statsCalls' = (statsCalls (-) SetToBag({call}))
                     (+) SetToBag({[call EXCEPT !.stage = "fail"]})
  /\ statsOutcome' = "none"
  /\ UNCHANGED <<novelStats, statsLoading, derived, streak>>

\* loadNovelStats after its await (part_000:138-154): the payload is kept
\* when it passes the test, null otherwise and in the catch; the finally
\* clears statsLoading; nothing is rethrown
LoadNovelStatsResume(call) ==
  /\ call.stage \in {"ok", "fail"}
  /\ statsCalls' = statsCalls (-) SetToBag({call})
  /\ novelStats' = IF call.stage = "ok" /\ isValidStats(call.payload)
                   THEN call.payload ELSE NoStats
  /\ statsLoading' = FALSE
  /\ statsOutcome' = "returned"
  /\ UNCHANGED <<derived, streak>>

StatsInit ==
  /\ sessions = <<>>
  /\ activeSessions = <<>>
  /\ loading = FALSE
  /\ error = Null
  /\ remote = <<>>
  /\ calls = EmptyBag
  /\ outcome = NoOutcome
  /\ tzOffset = 0
  /\ PrefIdle
  /\ CatIdle
  /\ PageIdle

StatsNext ==
  \/ \E id \in Novels : LoadNovelStats(id) /\ UNCHANGED <<sessVars, prefVars, catVars>>
  \/ \E call \in StatsPending : \E payload \in StatsPayloads(call.novel) :
       RemoteStats(call, payload) /\ UNCHANGED <<sessVars, prefVars, catVars>>
  \/ \E call \in StatsPending : RemoteStatsFail(call) /\ UNCHANGED <<sessVars, prefVars, catVars>>
  \/ \E call \in StatsPending : LoadNovelStatsResume(call) /\ UNCHANGED <<sessVars, prefVars, catVars>>

StatsSpec == StatsInit /\ [][StatsNext]_vars

\* ------------------------------------------------------- derived stores

\* String.prototype.toLowerCase on the characters the catalog and the
\* queries use
LowerOf(c) ==
  CASE c = "A" -> "a" [] c = "E" -> "e" [] c = "M" -> "m" [] c = "N" -> "n"
    [] c = "O" -> "o" [] c = "R" -> "r" [] c = "V" -> "v" [] c = "Z" -> "z"
    [] OTHER -> c
toLowerCase(text) == [i \in 1..Len(text) |-> LowerOf(text[i])]

\* String.prototype.includes: term occurs in text as a substring
includes(text, term) ==
  \E i \in 0..(Len(text) - Len(term)) : SubSeq(text, i + 1, i + Len(term)) = term

\* String.prototype.trim() is truthy: some character is not white space
trimTruthy(text) == \E i \in 1..Len(text) : text[i] # " "

\* stores/novels.ts:288-316 with a search that leaves the description out
filteredNovelsNoDescription(searchQuery, statusFilter, genreFilter) ==
  LET searchTerm == toLowerCase(searchQuery)
      bySearch == IF trimTruthy(searchQuery)
                  THEN SelectSeq(enhancedNovels, LAMBDA novel :
                         \/ includes(toLowerCase(novel.title), searchTerm)
                         \/ includes(toLowerCase(novel.author), searchTerm))
                  ELSE enhancedNovels
      byStatus == IF statusFilter # "All Status"
                  THEN SelectSeq(bySearch, LAMBDA novel : novel.userStatus = statusFilter)
                  ELSE bySearch
  IN  IF genreFilter # "All Genres"
      THEN SelectSeq(byStatus, LAMBDA novel : genreFilter \in novel.genres)
      ELSE byStatus

\* stores/novels.ts:288-316  the three filters, applied one after the other
filteredNovels(searchQuery, statusFilter, genreFilter) ==
  LET searchTerm == toLowerCase(searchQuery)
      bySearch == IF trimTruthy(searchQuery)
                  THEN SelectSeq(enhancedNovels, LAMBDA novel :
                         \/ includes(toLowerCase(novel.title), searchTerm)
                         \/ includes(toLowerCase(novel.author), searchTerm)
                         \/ includes(toLowerCase(novel.description), searchTerm))
                  ELSE enhancedNovels
      byStatus == IF statusFilter # "All Status"
                  THEN SelectSeq(bySearch, LAMBDA novel : novel.userStatus = statusFilter)
                  ELSE bySearch
  IN  IF genreFilter # "All Genres"
      THEN SelectSeq(byStatus, LAMBDA novel : genreFilter \in novel.genres)
      ELSE byStatus

\* user-preferences.ts:305-313
NoReadingStats ==
  [total |-> 0, reading |-> 0, completed |-> 0, onHold |-> 0, dropped |-> 0,
   wishlist |-> 0, favorites |-> 0]

\* user-preferences.ts:316-334 with a switch that has no case 'On Hold'
readingStatsStepNoOnHold(stats, data) ==
  LET counted == [stats EXCEPT !.total = @ + 1,
                               !.favorites = IF data.is_favorite = "true" THEN @ + 1 ELSE @]
  IN  CASE data.status = "Reading" -> [counted EXCEPT !.reading = @ + 1]
        [] data.status = "Completed" -> [counted EXCEPT !.completed = @ + 1]
        [] data.status = "Dropped" -> [counted EXCEPT !.dropped = @ + 1]
        [] data.status = "Wishlist" -> [counted EXCEPT !.wishlist = @ + 1]
        [] OTHER -> counted

\* user-preferences.ts:316-334  the body of the forEach: one record counted
readingStatsStep(stats, data) ==
  LET counted == [stats EXCEPT !.total = @ + 1,
                               !.favorites = IF data.is_favorite = "true" THEN @ + 1 ELSE @]
  IN  CASE data.status = "Reading" -> [counted EXCEPT !.reading = @ + 1]
        [] data.status = "Completed" -> [counted EXCEPT !.completed = @ + 1]
        [] data.status = "On Hold" -> [counted EXCEPT !.onHold = @ + 1]
        [] data.status = "Dropped" -> [counted EXCEPT !.dropped = @ + 1]
        [] data.status = "Wishlist" -> [counted EXCEPT !.wishlist = @ + 1]
        [] OTHER -> counted

\* Object.values(...).forEach over the records of the map, by ascending key
RECURSIVE readingStatsFrom(_, _, _)
readingStatsFrom(prefs, n, stats) ==
  IF n > MaxNovel THEN stats
  ELSE readingStatsFrom(prefs, n + 1,
         IF prefs[n] # NoPref THEN readingStatsStep(stats, prefs[n]) ELSE stats)

\* user-preferences.ts:304-339
readingStats(prefs) == readingStatsFrom(prefs, 1, NoReadingStats)

\* The records a preference map may hold for a novel: each of the five
\* statuses, a status outside the vocabulary or none, with each value of the
\* favorite flag.
PrefRecord(n, st, fav) ==
  [novel_id |-> n, status |-> st, is_favorite |-> fav,
   current_chapter |-> IF st = "Reading" THEN 3 ELSE NoNumber,
   rating |-> IF st = "Completed" THEN 4 ELSE NoNumber,
   personal_notes |-> IF fav = "true" THEN "note" ELSE Undef,
   date_started |-> IF st \in {"Reading", "Completed"} THEN "2025-01-05" ELSE Undef,
   date_completed |-> IF st = "Completed" THEN "2025-02-01" ELSE Undef,
   origin |-> "local"]
PrefRecords(n) ==
  {PrefRecord(n, st, fav) : st \in FrontendStatusInputs \cup {Undef},
                            fav \in {"true", "false", Undef}}

\* The records the filtered view is read over: the statuses the filters
\* name, one they do not name, or none.
ViewRecords(n) ==
  {PrefRecord(n, st, fav) : st \in {"Reading", "On Hold", "Completed", Undef},
                            fav \in {"true", Undef}}

\* The arguments the library page passes to filteredNovels.
SearchQueries ==
  {<<>>, <<" ">>, <<"o", "v">>, <<"E", "R">>, <<"e", "r", " ">>, <<"m", "a">>}
StatusFilters == {"All Status", "Reading", "On Hold"}
GenreFilters == {"All Genres", "Fantasy", "Drama"}

DerivedInit ==
  /\ sessions = <<>>
  /\ activeSessions = [n \in Novels |-> NoSession]
  /\ loading = FALSE
  /\ error = Null
  /\ remote = <<>>
  /\ calls = EmptyBag
  /\ outcome = NoOutcome
  /\ tzOffset = 0
  /\ preferences \in [Novels -> {NoPref} \cup UNION {ViewRecords(n) : n \in Novels}]
  /\ \A n \in Novels : preferences[n] \in {NoPref} \cup ViewRecords(n)
  /\ prefLoading = FALSE
  /\ prefError = Null
  /\ remotePrefs = [n \in Novels |-> NoBackendPref]
  /\ localPrefs = [n \in Novels |-> NoPref]
  /\ prefCalls = EmptyBag
  /\ prefOutcome = NoPrefOutcome
  /\ issued = 0
  /\ novels \in Catalogs
  /\ novelsLoading = FALSE
  /\ novelsError = Null
  /\ catalog = novels
  /\ novelCalls = EmptyBag
  /\ PageIdle

\* a subscriber reads readingStats
ReadReadingStats ==
  /\ derived' = [NoDerived EXCEPT !.store = "readingStats",
                                  !.value = readingStats(preferences)]
  /\ UNCHANGED <<novelStats, statsLoading, statsCalls, statsOutcome, streak>>

\* a subscriber reads enhancedNovels
ReadEnhancedNovels ==
  /\ derived' = [NoDerived EXCEPT !.store = "enhancedNovels", !.value = enhancedNovels]
  /\ UNCHANGED <<novelStats, statsLoading, statsCalls, statsOutcome, streak>>

\* a subscriber reads filteredNovels and calls it
ReadFilteredNovels(searchQuery, statusFilter, genreFilter) ==
  /\ derived' = [store |-> "filteredNovels", query |-> searchQuery,
                 status |-> statusFilter, genre |-> genreFilter,
                 value |-> filteredNovels(searchQuery, statusFilter, genreFilter)]
  /\ UNCHANGED <<novelStats, statsLoading, statsCalls, statsOutcome, streak>>

DerivedNext ==
  \/ ReadEnhancedNovels /\ UNCHANGED <<sessVars, prefVars, catVars>>
  \/ \E q \in SearchQueries, st \in StatusFilters, g \in GenreFilters :
       ReadFilteredNovels(q, st, g) /\ UNCHANGED <<sessVars, prefVars, catVars>>

DerivedSpec == DerivedInit /\ [][DerivedNext]_vars

ReadingStatsInit ==
  /\ sessions = <<>>
  /\ activeSessions = [n \in Novels |-> NoSession]
  /\ loading = FALSE
  /\ error = Null
  /\ remote = <<>>
  /\ calls = EmptyBag
  /\ outcome = NoOutcome
  /\ tzOffset = 0
  /\ preferences \in [Novels -> {NoPref} \cup UNION {PrefRecords(n) : n \in Novels}]
  /\ \A n \in Novels : preferences[n] \in {NoPref} \cup PrefRecords(n)
  /\ prefLoading = FALSE
  /\ prefError = Null
  /\ remotePrefs = [n \in Novels |-> NoBackendPref]
  /\ localPrefs = [n \in Novels |-> NoPref]
  /\ prefCalls = EmptyBag
  /\ prefOutcome = NoPrefOutcome
  /\ issued = 0
  /\ CatIdle
  /\ PageIdle

ReadingStatsNext == ReadReadingStats /\ UNCHANGED <<sessVars, prefVars, catVars>>

ReadingStatsSpec == ReadingStatsInit /\ [][ReadingStatsNext]_vars

\* ------------------------------------ preferences, remote service reachable

\* The preference store used by one caller at a time while every request
\* reaches the remote service: a request is answered with a record, a list
\* or "not found", never with a failure of the service.
ReachableNext ==
  \/ \E n \in Novels, v \in StatusInputs :
       prefCalls = EmptyBag /\ SetUserStatus(n, v) /\ UNCHANGED <<sessVars, catVars, pageVars>>
  \/ \E n \in Novels, v \in RatingInputs :
       prefCalls = EmptyBag /\ SetRating(n, v) /\ UNCHANGED <<sessVars, catVars, pageVars>>
  \/ \E n \in Novels :
       prefCalls = EmptyBag /\ ToggleFavorite(n) /\ UNCHANGED <<sessVars, catVars, pageVars>>
  \/ \E call \in PrefPending : RemoteGetPref(call) /\ UNCHANGED <<sessVars, catVars, pageVars>>
  \/ \E call \in PrefPending : RemotePatchPref(call) /\ UNCHANGED <<sessVars, catVars, pageVars>>
  \/ \E call \in PrefPending : RemoteListPrefs(call) /\ UNCHANGED <<sessVars, catVars, pageVars>>
  \/ \E call \in PrefPending, rd \in BOOLEAN : ToggleResume(call, rd) /\ UNCHANGED <<sessVars, catVars, pageVars>>
  \/ \E call \in PrefPending, rd \in BOOLEAN, wr \in BOOLEAN :
       UpsertResume(call, rd, wr) /\ UNCHANGED <<sessVars, catVars, pageVars>>
  \/ prefCalls = EmptyBag /\ LoadPreferences /\ UNCHANGED <<sessVars, catVars, pageVars>>
  \/ \E call \in PrefPending, rd \in BOOLEAN :
       LoadPreferencesResume(call, rd) /\ UNCHANGED <<sessVars, catVars, pageVars>>

ReachableSpec == PrefInit /\ [][ReachableNext]_vars

\* The preference store used by one caller at a time, with a remote service
\* that may fail any request.
SequentialNext ==
  \/ ReachableNext
  \/ \E call \in PrefPending : RemotePrefError(call) /\ UNCHANGED <<sessVars, catVars, pageVars>>

SequentialSpec == PrefInit /\ [][SequentialNext]_vars

\* ------------------------------------------------------------------ claims

\* The instant a start timestamp denotes when its fields are read as UTC
\* (or shifted by the offset the string itself carries).
UtcInstant(ts) == IF ts.form = "offset" THEN ts.wall - ts.off ELSE ts.wall

PendingEnds == {call \in Pending : call.op = "end" /\ call.stage = "sent"}
Elapsed(call) == call.req.now - UtcInstant(call.req.started_at)

\* C1: startSession(n) while the registry holds an open session for n is
\* rejected: the call fails with an error, no start request is sent and the
\* registry is left as it was.
C1_StartWhileActiveRejected ==
  [][\A n \in Novels :
       (getActiveSession(n) # NoSession /\ StartSession(n))
         => /\ outcome'.result = "threw"
            /\ calls' = calls
            /\ activeSessions' = activeSessions]_vars

\* The ids of the sessions of novel n that have no end timestamp, at the
\* remote service and in the store's session list.
OpenSessionIds(n) ==
  {remote[i].id : i \in {j \in DOMAIN remote : remote[j].novel_id = n /\ ~remote[j].ended}}
    \cup {sessions[i].id :
            i \in {j \in DOMAIN sessions : sessions[j].novel_id = n /\ ~sessions[j].ended}}

\* C2: in every reachable state each novel has at most one session with no
\* end timestamp, counting the remote service's sessions and the store's list.
C2_AtMostOneOpenSession == \A n \in Novels : Cardinality(OpenSessionIds(n)) <= 1

\* C3: endSession(n) with no registered session for n fails with the "no
\* active session" error, sends no end request and leaves the session list
\* and the registry unchanged.
C3_EndWhileIdleFails ==
  [][\A n \in Novels, cb \in Callbacks, nowv \in NowValues :
       (getActiveSession(n) = NoSession /\ EndSession(n, cb, nowv))
         => /\ outcome' = Threw("end", n, "No active session found for this novel", <<>>)
            /\ error' = "No active session found for this novel"
            /\ calls' = calls
            /\ remote' = remote
            /\ sessions' = sessions
            /\ activeSessions' = activeSessions]_vars

C3_Witness ==
  /\ outcome.op = "end"
  /\ outcome.err = "No active session found for this novel"
  /\ activeSessions[outcome.novel] = NoSession

\* C4: every endSession on a registered session whose start time parses sends
\* an end request, whatever the elapsed time, and the duration_minutes of
\* every end request is an integer >= 1, also for an elapsed time under one
\* minute or below zero.
C4_DurationAtLeastOneMinute ==
  [][/\ \A call \in BagToSet(calls') :
          (call.op = "end" /\ call.stage = "sent")
            => call.req.duration_minutes \in Nat \ {0}
     /\ \A n \in Novels, cb \in Callbacks, nowv \in NowValues :
          (/\ getActiveSession(n) # NoSession
           /\ getActiveSession(n).started_at.form # "garbage"
           /\ EndSession(n, cb, nowv))
            => /\ outcome' = NoOutcome
               /\ error' = error
               /\ \E call \in BagToSet(calls') :
                    /\ call.op = "end" /\ call.stage = "sent"
                    /\ call.req.sid = getActiveSession(n).id
                    /\ call.req.now = nowv]_vars

C4_Witness ==
  \E call \in PendingEnds : Elapsed(call) < 0 /\ call.req.duration_minutes = 1

\* C5: for an elapsed time of at least one minute the reported duration is
\* the floor of elapsed / 60000: 65 minutes give 65, 65 minutes 59 seconds
\* give 65 as well.
C5_DurationIsFloor ==
  \A call \in PendingEnds :
    Elapsed(call) >= MsPerMinute
      => /\ call.req.duration_minutes * MsPerMinute <= Elapsed(call)
         /\ Elapsed(call) < (call.req.duration_minutes + 1) * MsPerMinute
         /\ (Elapsed(call) = 65 * MsPerMinute => call.req.duration_minutes = 65)
         /\ (Elapsed(call) = 65 * MsPerMinute + 59000 => call.req.duration_minutes = 65)

C5_Witness ==
  \E call \in PendingEnds :
    Elapsed(call) = 65 * MsPerMinute + 59000 /\ call.req.duration_minutes = 65

\* C6: a start timestamp with no zone marker is read as UTC fields: the
\* duration sent is the one computed from the fields as UTC, and it is the
\* duration a client at any other UTC offset sends for the same timestamp and
\* the same current instant.
C6_NaiveStartReadAsUtc ==
  \A call \in PendingEnds :
    call.req.started_at.form = "naive"
      => /\ call.req.duration_minutes
              = (IF call.req.now - call.req.started_at.wall < MsPerMinute THEN 1
                 ELSE (call.req.now - call.req.started_at.wall) \div MsPerMinute)
         /\ \A tz \in TzOffsets :
              call.req.duration_minutes
                = durationMinutes(call.req.now - finalStartTime(call.req.started_at, tz))

C6_Witness ==
  \E call \in PendingEnds :
    /\ call.req.started_at.form = "naive"
    /\ tzOffset # 0
    /\ call.req.duration_minutes = 65

\* C7: when the completion callback throws, endSession still reports
\* success: it returns the closed session and leaves the error field alone.
C7_CallbackFailureIgnored ==
  [][\A call \in Pending :
       (EndResume(call) /\ call.stage = "ok" /\ call.cb = "throws")
         => /\ outcome'.result = "returned"
            /\ error' = error]_vars

\* C8: in a successful endSession the service has closed the session, then
\* the registry entry is removed, then the callback runs; after a failed end
\* request the callback is not run and the registry is left as it was.
C8_EndOrder ==
  [][\A call \in Pending :
       EndResume(call)
         => IF call.stage = "ok"
            THEN /\ remote[call.resp.id].ended
                 /\ activeSessions'[call.novel] = NoSession
                 /\ outcome'.trace =
                      (IF call.cb = "none" THEN <<"closed", "unregistered">>
                       ELSE <<"closed", "unregistered", "callback">>)
            ELSE /\ outcome'.trace = <<>>
                 /\ activeSessions' = activeSessions]_vars

C8_Witness ==
  /\ outcome.op = "end"
  /\ outcome.trace = <<"closed", "unregistered", "callback">>
  /\ activeSessions[outcome.novel] = NoSession

\* A step of startSession(a) or of endSession(a): the call itself, the
\* service answering it, or its continuation.
SessionStepOf(a) ==
  \/ StartSession(a)
  \/ \E cb \in Callbacks, nowv \in NowValues : EndSession(a, cb, nowv)
  \/ \E call \in Pending :
       /\ call.novel = a
       /\ call.op \in {"start", "end"}
       /\ \/ \E st \in Stamps : RemoteStart(call, st)
          \/ RemoteFail(call)
          \/ StartResume(call)
          \/ RemoteEnd(call)
          \/ EndResume(call)

\* C9: a step of startSession(a) or endSession(a), successful or not, leaves
\* the registry entry of every other novel b unchanged: a step that changes
\* the entry of b is no step of a call on another novel.
C9_ItemsIndependent ==
  [][\A b \in Novels :
       activeSessions'[b] # activeSessions[b]
         => \A a \in Novels \ {b} : ~SessionStepOf(a)]_vars

C9_Witness ==
  \E a \in Novels, b \in Novels :
    /\ a # b
    /\ outcome = Returned("end", a, <<"closed", "unregistered">>)
    /\ activeSessions[a] = NoSession
    /\ activeSessions[b] # NoSession

UpsertOps ==
  {"setUserStatus", "toggleFavorite", "setRating", "setPersonalNotes", "updateProgress"}

\* C10: when an upsert on a novel has completed (with a working local store)
\* and no other call on that novel is pending, the novel has one entry in
\* the in-memory map and exactly one record across the remote service and
\* the local store: a record in one of them and none in the other.
C10_ExactlyOneRecord ==
  (/\ prefOutcome.op \in UpsertOps
   /\ prefOutcome.storage # "failed"
   /\ \A call \in PrefPending : call.novel # prefOutcome.novel)
    => /\ preferences[prefOutcome.novel] # NoPref
       /\ (remotePrefs[prefOutcome.novel] # NoBackendPref)
            # (localPrefs[prefOutcome.novel] # NoPref)

\* A step sends a preference request to the remote service: a call waits
\* for the service afterwards that did not wait for it before.
RequestSent ==
  \E c \in BagToSet(prefCalls') :
    /\ c.stage \in {"sent", "get_sent"}
    /\ CopiesIn(c, prefCalls') > CopiesIn(c, prefCalls)

\* A preference read against the remote service has just failed outright:
\* loadPreferences completed from the local store, or the read of a
\* toggleFavorite came back with an error other than "not found".
ReadFailedOutright ==
  \/ prefOutcome.op = "loadPreferences" /\ prefOutcome.backend = "local"
  \/ \E c \in PrefPending : c.stage = "get_error"

\* C11: once a preference read against the remote service has failed
\* outright, no later step of a preference operation sends a request to the
\* remote service.
C11_LocalOnlyAfterFailedRead ==
  [][ReadFailedOutright => ~RequestSent]_vars

\* C12: when the update of an upsert is answered "not found", the upsert
\* sends a create request to the remote service and leaves the local
\* fallback store as it was.
C12_NotFoundCreatesRemotely ==
  [][\A call \in PrefPending :
       (/\ call.stage = "notfound"
        /\ \E rd \in BOOLEAN, wr \in BOOLEAN : UpsertResume(call, rd, wr))
         => /\ localPrefs' = localPrefs
            /\ RequestSent]_vars

\* C13: all records of the in-memory preference map come from one backend.
C13_OneBackendInMemory ==
  \A a \in Novels, b \in Novels :
    (preferences[a] # NoPref /\ preferences[b] # NoPref)
      => preferences[a].origin = preferences[b].origin

\* C14: a preference operation during which the local fallback store could
\* not be read or written ends as a failure: the store's error field is set.
C14_LocalFailurePropagates ==
  (prefOutcome.result = "returned" /\ prefOutcome.storage = "failed")
    => prefError # Null

\* C15: when the remote request of a preference mutation fails with an error
\* other than "not found", the store's error field holds a message after the
\* mutation.
C15_RemoteErrorSurfaced ==
  [][\A call \in PrefPending :
       (/\ call.stage = "error"
        /\ \E rd \in BOOLEAN, wr \in BOOLEAN : UpsertResume(call, rd, wr))
         => prefError' # Null]_vars

\* C16: a failed remote request keeps the state loaded before it; for
\* loadPreferences: when its request failed, the in-memory preference map is
\* left as it was.
C16_FailedLoadKeepsPreferences ==
  [][\A call \in PrefPending :
       (/\ call.stage = "error"
        /\ \E rd \in BOOLEAN : LoadPreferencesResume(call, rd))
         => preferences' = preferences]_vars

\* The session half of C16: a failed loadSessions, startSession or
\* endSession leaves the session list and the open-session registry as they
\* were.
FailedSessionRequestKeepsState ==
  [][\A call \in Pending :
       (/\ call.stage = "fail"
        /\ (StartResume(call) \/ EndResume(call) \/ LoadResume(call)))
         => /\ sessions' = sessions
            /\ activeSessions' = activeSessions]_vars

\* The two mappings on one value: a presentation status survives the way to
\* the remote vocabulary and back, a remote value the way to the
\* presentation vocabulary and back, and a non-empty value of neither
\* vocabulary is returned as it is by both.
StatusRoundTrip(v) ==
  /\ v \in DOMAIN FRONTEND_TO_BACKEND_STATUS
       => mapStatusToFrontend(mapStatusToBackend(v)) = v
  /\ v \in DOMAIN BACKEND_TO_FRONTEND_STATUS
       => mapStatusToBackend(mapStatusToFrontend(v)) = v
  /\ (/\ v \notin DOMAIN FRONTEND_TO_BACKEND_STATUS
      /\ v \notin DOMAIN BACKEND_TO_FRONTEND_STATUS
      /\ v \notin {Undef, ""})
       => /\ mapStatusToBackend(v) = v
          /\ mapStatusToFrontend(v) = v

\* C17: status translation round-trips on every status the client sends,
\* holds or stores and on every value the remote service holds, values
\* outside the vocabularies pass unchanged, and a status set through the
\* remote service reads back as the status that was set (the in-memory
\* status and the remote value are each other's translation).
C17_StatusRoundTrip ==
  /\ \A n \in Novels :
       /\ StatusRoundTrip(preferences[n].status)
       /\ StatusRoundTrip(localPrefs[n].status)
       /\ StatusRoundTrip(remotePrefs[n].user_status)
  /\ \A call \in PrefPending :
       /\ call.field = "status" => StatusRoundTrip(call.value)
       /\ StatusRoundTrip(call.resp.user_status)
  /\ (prefOutcome.op = "setUserStatus" /\ prefOutcome.backend = "remote")
       => /\ preferences[prefOutcome.novel].status
               = mapStatusToFrontend(remotePrefs[prefOutcome.novel].user_status)
          /\ remotePrefs[prefOutcome.novel].user_status
               = mapStatusToBackend(preferences[prefOutcome.novel].status)

\* 'On Hold' was set through the remote service, which holds 'on_hold'.
C17_Witness ==
  /\ prefOutcome.op = "setUserStatus" /\ prefOutcome.backend = "remote"
  /\ preferences[1].status = "On Hold"
  /\ remotePrefs[1].user_status = "on_hold"

\* C18: the enhanced view has exactly one entry per record of the catalog
\* list, in the order of the list and with the same ids, whatever records
\* the preference map holds.
C18_OneViewPerCatalogRecord ==
  /\ Len(enhancedNovels) = Len(novels)
  /\ \A i \in 1..Len(novels) : enhancedNovels[i].id = novels[i].id

\* The catalog list holds a record that has no preference and the
\* preference map holds a record of a novel that is not in the list.
C18_Witness ==
  /\ \E i \in 1..Len(novels) : preferences[novels[i].id] = NoPref
  /\ \E n \in Novels :
       /\ preferences[n] # NoPref
       /\ \A i \in 1..Len(novels) : novels[i].id # n
  /\ Len(enhancedNovels) = 1

\* C19: the enhanced view of a catalog record that has no preference record
\* has status unset, favorite false and progress 0.
C19_DefaultsWithoutPreference ==
  \A i \in 1..Len(novels) :
    preferences[novels[i].id] = NoPref
      => /\ enhancedNovels[i].userStatus = Undef
         /\ enhancedNovels[i].isFavorite = "false"
         /\ enhancedNovels[i].currentChapter = 0

\* C20: a toggleFavorite that reads the current record of a novel of which
\* neither the remote service nor the local store holds a record goes on
\* with favorite = true, and a toggleFavorite that goes on with favorite =
\* true leaves one record of that novel in the in-memory map, with
\* favorite = true.
C20_ToggleCreatesFavorite ==
  [][\A call \in PrefPending :
       call.op = "toggleFavorite" =>
         /\ (/\ remotePrefs[call.novel] = NoBackendPref
             /\ localPrefs[call.novel] = NoPref
             /\ \E rd \in BOOLEAN : ToggleResume(call, rd))
              => prefCalls' = PrefReplace(call,
                   PrefCall("toggleFavorite", call.novel, "is_favorite", "true", "sent"))
         /\ (/\ call.value = "true"
             /\ \E rd \in BOOLEAN, wr \in BOOLEAN : UpsertResume(call, rd, wr))
              => /\ preferences'[call.novel].novel_id = call.novel
                 /\ preferences'[call.novel].is_favorite = "true"]_vars

\* toggleFavorite(1) has completed by creating the record of novel 1 in the
\* local store: the record carries nothing but the flag.
C20_Witness ==
  /\ prefOutcome.op = "toggleFavorite" /\ prefOutcome.novel = 1
  /\ remotePrefs[1] = NoBackendPref
  /\ localPrefs[1] = [NoPref EXCEPT !.novel_id = 1, !.is_favorite = "true",
                                    !.origin = "local"]
  /\ preferences[1] = localPrefs[1]

\* The calendar day (UTC) of a session and of the clock value of the streak.
DayOf(session) == session.started_at.wall \div MsPerDay
SessionDays == {DayOf(sessions[i]) : i \in 1..Len(sessions)}
Today == streak.now \div MsPerDay

\* C21: on a client whose local time is UTC, one session on each of the
\* days D, D-1 and D-2 (D = today) gives a streak of 3, and one session on
\* each of D and D-2 with none on D-1 gives a streak of 1.
C21_StreakStopsAtMissingDay ==
  (streak # NoStreak /\ tzOffset = 0)
    => /\ (Len(sessions) = 3 /\ SessionDays = {Today, Today - 1, Today - 2})
            => streak.value = 3
       /\ (Len(sessions) = 2 /\ SessionDays = {Today, Today - 2})
            => streak.value = 1

\* C22: on a client whose local time is UTC, when the days that have a
\* session are consecutive days that end today or yesterday, the streak is
\* the number of those days, however many sessions each day has.
C22_StreakCountsDays ==
  (/\ streak # NoStreak /\ tzOffset = 0
   /\ \E last \in {Today, Today - 1}, k \in 1..(MaxStreakDay + 1) :
        SessionDays = (last - k + 1)..last)
    => streak.value = Cardinality(SessionDays)

\* C30: the streak of a session list at a clock value is the streak a
\* client at UTC offset 0 computes: the client's local offset has no part
\* in it.
C30_StreakSameForEveryOffset ==
  streak # NoStreak
    => streak.value = calculateReadingStreak(sessions, 0, streak.now)

\* C23: loading a novel's statistics never raises, and when the call
\* completes the page's statistics state is the payload if the fetch
\* succeeded with a non-array object whose total_reading_time_minutes is a
\* number, and null after a failed fetch, a null payload, an array or a
\* payload without that field.
C23_StatsPayloadOrNull ==
  [][\A call \in StatsPending :
       LoadNovelStatsResume(call)
         => /\ statsOutcome' = "returned"
            /\ novelStats' = IF /\ call.stage = "ok"
                                /\ call.payload.shape = "object"
                                /\ call.payload.total = "number"
                             THEN call.payload ELSE NoStats]_vars

C23_Witness ==
  /\ statsOutcome = "returned"
  /\ novelStats.shape = "object"
  /\ novelStats.minutes = 45
  /\ statsLoading = FALSE

\* The records of the preference map.
Records == {preferences[n] : n \in {m \in Novels : preferences[m] # NoPref}}
CountStatus(st) == Cardinality({r \in Records : r.status = st})

\* C24: readingStats.total is the number of records of the preference map,
\* favorites the number of records whose favorite flag is true, each of
\* reading, completed, onHold, dropped and wishlist the number of records
\* with exactly that status; the five counts add up to at most total, and to
\* total exactly when every record carries one of the five statuses.
C24_ReadingStatsCounts ==
  derived.store = "readingStats"
    => LET stats == derived.value
           five == stats.reading + stats.completed + stats.onHold
                     + stats.dropped + stats.wishlist
       IN  /\ stats.total = Cardinality(Records)
           /\ stats.favorites = Cardinality({r \in Records : r.is_favorite = "true"})
           /\ stats.reading = CountStatus("Reading")
           /\ stats.completed = CountStatus("Completed")
           /\ stats.onHold = CountStatus("On Hold")
           /\ stats.dropped = CountStatus("Dropped")
           /\ stats.wishlist = CountStatus("Wishlist")
           /\ five <= stats.total
           /\ (five = stats.total) <=> (\A r \in Records : r.status \in USER_STATUSES)

C24_Witness ==
  /\ derived.store = "readingStats"
  /\ derived.value.total = 2
  /\ derived.value.onHold = 1
  /\ derived.value.favorites = 1
  /\ \E r \in Records : r.status = "Archived"

\* C25: when the remote start or end request fails, the call rejects with
\* that error and the store's error field is set; nothing is fabricated
\* locally: the session list, the registry of open sessions and the remote
\* service's sessions are as before, so a failed start registers no session
\* and a session registered before a failed end is registered after it.
C25_FailedRequestSurfaced ==
  [][\A call \in Pending :
       (/\ call.stage = "fail"
        /\ call.op \in {"start", "end"}
        /\ (StartResume(call) \/ EndResume(call)))
         => /\ outcome'.result = "threw"
            /\ outcome'.err = "request failed"
            /\ error' = "request failed"
            /\ sessions' = sessions
            /\ activeSessions' = activeSessions
            /\ remote' = remote
            /\ (call.op = "end" /\ activeSessions[call.novel] # NoSession)
                 => activeSessions'[call.novel] # NoSession]_vars

C25_Witness ==
  /\ outcome.op = "end"
  /\ outcome.result = "threw"
  /\ outcome.err = "request failed"
  /\ error = "request failed"
  /\ activeSessions[outcome.novel] # NoSession

\* What C26 says of one entry of the enhanced view: it satisfies every
\* predicate that is active.
SatisfiesFilters(novel, query, status, genre) ==
  /\ (\E i \in 1..Len(query) : query[i] # " ")
       => \E text \in {novel.title, novel.author, novel.description} :
            includes(toLowerCase(text), toLowerCase(query))
  /\ status # "All Status" => novel.userStatus = status
  /\ genre # "All Genres" => genre \in novel.genres

\* C26: filteredNovels(query, status, genre) returns, in the order of the
\* enhanced view, exactly the entries whose user status equals the status
\* filter, whose genres contain the genre filter and whose lower-cased
\* title, author or description contains the lower-cased query; a blank
\* query, 'All Status' and 'All Genres' switch their predicate off, and with
\* all three the whole view is returned.
C26_FilteredNovelsExact ==
  derived.store = "filteredNovels"
    => /\ derived.value =
            SelectSeq(enhancedNovels, LAMBDA novel :
              SatisfiesFilters(novel, derived.query, derived.status, derived.genre))
       /\ (/\ \A i \in 1..Len(derived.query) : derived.query[i] = " "
           /\ derived.status = "All Status"
           /\ derived.genre = "All Genres") => derived.value = enhancedNovels

C26_Witness ==
  /\ derived.store = "filteredNovels"
  /\ derived.query = <<"m", "a">>
  /\ derived.status = "Reading"
  /\ derived.genre = "Drama"
  /\ Len(enhancedNovels) = 2
  /\ Len(derived.value) = 1
  /\ derived.value[1].id = 2

\* C27: the enhanced view is a left join computed without side effects: for
\* every catalog item that has a preference record the view's status,
\* favorite flag, progress, rating, notes and start and completion dates are
\* the record's, the view computed again from the same inputs is the same
\* view, and reading it changes neither the catalog list nor the map.
C27_EnhancedViewIsLeftJoin ==
  [][ReadEnhancedNovels
       => /\ Len(derived'.value) = Len(novels)
          /\ \A i \in 1..Len(novels) :
               LET view == derived'.value[i]
                   pref == preferences[novels[i].id]
               IN  pref # NoPref
                     => /\ view.id = novels[i].id
                        /\ view.userStatus = pref.status
                        /\ view.isFavorite = pref.is_favorite
                        /\ view.currentChapter = pref.current_chapter
                        /\ view.rating = pref.rating
                        /\ view.personalNotes = pref.personal_notes
                        /\ view.dateStarted = pref.date_started
                        /\ view.dateCompleted = pref.date_completed
          /\ derived'.value = enhancedNovels'
          /\ novels' = novels
          /\ preferences' = preferences]_vars

C27_Witness ==
  /\ derived.store = "enhancedNovels"
  /\ Len(derived.value) = 2
  /\ derived.value[1].id = 2
  /\ derived.value[1].userStatus = "Completed"
  /\ derived.value[1].dateCompleted = "2025-02-01"
  /\ derived.value[2].userStatus = Undef
  /\ preferences[1] = NoPref

\* C28: the in-memory record of an item is the response of the upsert that
\* completed last: a completing upsert replaces the record by its own
\* response whatever the map holds and whichever call was issued first, so
\* of two upserts in flight on one item the later response stands, even when
\* it is the older answer of the service.
C28_LastResponseWins ==
  [][\A call \in PrefPending :
       (/\ call.op \in UpsertOps
        /\ call.stage \in {"ok", "notfound", "error"}
        /\ \E rd \in BOOLEAN, wr \in BOOLEAN : UpsertResume(call, rd, wr))
         => /\ call.stage = "ok"
                 => preferences'[call.novel] = mapUserPreferenceFromBackend(call.resp)
            /\ call.stage # "ok"
                 => /\ preferences'[call.novel].origin = "local"
                    /\ \/ call.field # "status"
                       \/ preferences'[call.novel].status = call.value
            /\ \A n \in Novels \ {call.novel} : preferences'[n] = preferences[n]]_vars

\* Both upserts on novel 1 were answered by the service and have completed;
\* the map holds a response of the service that is not the record the
\* service holds now.
C28_Witness ==
  /\ prefCalls = EmptyBag
  /\ issued = 2
  /\ prefOutcome.op \in UpsertOps
  /\ prefOutcome.novel = 1
  /\ preferences[1].origin = "remote"
  /\ preferences[2] = NoPref
  /\ remotePrefs[1] # NoBackendPref
  /\ preferences[1] # mapUserPreferenceFromBackend(remotePrefs[1])

\* C29: a mutation of the local fallback store changes the entry of one item
\* in one step and leaves the stored records of all other items as they
\* were.
C29_LocalMutationKeepsOtherItems ==
  [][\A call \in PrefPending :
       (/\ call.op \in UpsertOps
        /\ call.stage \in {"notfound", "error"}
        /\ \E rd \in BOOLEAN, wr \in BOOLEAN : UpsertResume(call, rd, wr))
         => \A n \in Novels \ {call.novel} : localPrefs'[n] = localPrefs[n]]_vars

\* The open sessions the remote service holds for a novel that the registry
\* does not hold.
StaleRemote(n) ==
  {i \in DOMAIN remote :
     /\ remote[i].novel_id = n
     /\ ~remote[i].ended
     /\ activeSessions[n].id # i}

\* C31: startSession does not reconcile stale remote state: with an open
\* session of the novel held by the service and absent from the registry,
\* startSession closes nothing, adopts nothing and sends a fresh start
\* request; and loadSessions never changes the registry.
C31_StartIgnoresStaleRemote ==
  [][/\ \A n \in Novels :
          (/\ StaleRemote(n) # {}
           /\ activeSessions[n] = NoSession
           /\ StartSession(n))
            => /\ remote' = remote
               /\ activeSessions' = activeSessions
               /\ calls' = calls (+) SetToBag({Call("start", n, "none", NoReq)})
     /\ \A call \in Pending :
          (call.op = "load" /\ LoadResume(call)) => activeSessions' = activeSessions]_vars

\* The start made over the stale session has completed: the list was cleared
\* and holds the new session only, the registry holds the new session, and
\* the service still holds the old one open.
C31_Witness ==
  /\ Len(remote) = 2
  /\ remote[1].novel_id = 1 /\ ~remote[1].ended
  /\ remote[2].novel_id = 1 /\ ~remote[2].ended
  /\ activeSessions[1].id = 2
  /\ Len(sessions) = 1
  /\ sessions[1].id = 2
  /\ outcome.op = "start" /\ outcome.result = "returned"

\* C32: no session id is closed remotely more than once: at any time at most
\* one end request is under way for a session id, and none for a session the
\* service has already closed, whatever the interleaving of endSession calls.
C32_AtMostOneEndRequest ==
  \A c \in PendingEnds :
    /\ CopiesIn(c, calls) = 1
    /\ ~remote[c.req.sid].ended
    /\ \A d \in PendingEnds \ {c} : d.req.sid # c.req.sid

\* C33: every session a startSession of this store opened and no endSession
\* closed can be reached through the registry: once no call is under way,
\* each session of the store's list that is open in the list and on the
\* service is the registry entry of its novel, also after two startSession
\* calls on one novel.
C33_OpenSessionsRegistered ==
  calls = EmptyBag
    => \A k \in DOMAIN sessions :
         (~sessions[k].ended /\ ~remote[sessions[k].id].ended)
           => activeSessions[sessions[k].novel_id] = sessions[k]

\* C34: read your writes: with the remote service reachable throughout, a
\* loadPreferences made after an upsert has completed yields a map that
\* still holds a record of the item with the value written, also when the
\* item had no record before the upsert.
C34_ReadYourWrites ==
  [][\A call \in PrefPending :
       (/\ call.op = "loadPreferences"
        /\ prefError = Null
        /\ \E rd \in BOOLEAN : LoadPreferencesResume(call, rd))
         => \A n \in Novels :
              preferences[n] # NoPref
                => /\ preferences'[n] # NoPref
                   /\ preferences'[n].status = preferences[n].status
                   /\ preferences'[n].rating = preferences[n].rating
                   /\ preferences'[n].is_favorite = preferences[n].is_favorite]_vars

\* The fields of a preference record a per-field upsert can write.
UpsertFields == {"status", "is_favorite", "rating", "personal_notes", "current_chapter"}

\* C35: a per-field upsert changes only its own field: when an upsert on a
\* novel that has an in-memory record completes, the records of all other
\* novels are as before and every other field of the novel's record has the
\* value it had, whatever the remote service answered.
C35_UpsertChangesOwnFieldOnly ==
  [][\A call \in PrefPending :
       (/\ call.op \in UpsertOps
        /\ call.stage \in {"ok", "notfound", "error"}
        /\ preferences[call.novel] # NoPref
        /\ \E rd \in BOOLEAN, wr \in BOOLEAN : UpsertResume(call, rd, wr))
         => /\ \A n \in Novels \ {call.novel} : preferences'[n] = preferences[n]
            /\ \A f \in UpsertFields \ {call.field} :
                 preferences'[call.novel][f] = preferences[call.novel][f]]_vars

\* C36: toggleFavorite flips the flag: when a toggleFavorite on a novel whose
\* in-memory record has the flag set or cleared completes, the record's flag
\* is the opposite one, also when the read of the current record failed with
\* an error other than "not found".
C36_ToggleFlips ==
  [][\A call \in PrefPending :
       (/\ call.op = "toggleFavorite"
        /\ call.stage \in {"ok", "notfound", "error"}
        /\ preferences[call.novel].is_favorite \in {"true", "false"}
        /\ \E rd \in BOOLEAN, wr \in BOOLEAN : UpsertResume(call, rd, wr))
         => preferences'[call.novel].is_favorite =
              (IF preferences[call.novel].is_favorite = "true" THEN "false" ELSE "true")]_vars

\* The registry entry of the novel is a session whose start timestamp cannot
\* be parsed.
Unparsable(n) ==
  /\ activeSessions[n] # NoSession
  /\ isNaN(finalStartTime(activeSessions[n].started_at, tzOffset))

\* An endSession on such an entry fails with 'Invalid session start time'
\* before any request is sent and leaves the registry as it was.
InvalidStartFailsEarly ==
  [][\A n \in Novels, cb \in Callbacks, nowv \in NowValues :
       (Unparsable(n) /\ EndSession(n, cb, nowv))
         => /\ outcome'.result = "threw"
            /\ outcome'.err = "Invalid session start time"
            /\ error' = "Invalid session start time"
            /\ calls' = calls
            /\ remote' = remote
            /\ activeSessions' = activeSessions]_vars

\* C37: endSession on a registered session whose start timestamp cannot be
\* parsed fails with 'Invalid session start time' before any end request is
\* sent, and the novel stays in that condition until clear() is called: no
\* other step leaves the novel with a registry entry that endSession would
\* accept or with none.
C37_InvalidStartStuckUntilClear ==
  [][\A n \in Novels :
       Unparsable(n)
         => /\ \A cb \in Callbacks, nowv \in NowValues :
                 EndSession(n, cb, nowv)
                   => /\ outcome'.err = "Invalid session start time"
                      /\ calls' = calls
            /\ Unparsable(n)' \/ Clear]_vars

\* C38  When deleteNovel(id) completes successfully, the catalog list and the
\* enhanced view have no entry with that id and the in-memory preference map
\* has no record for it, so readingStats counts the records of the other
\* novels only.
C38_DeleteLeavesNoReference ==
  [][\A call \in NovelPending :
       (\E rd \in BOOLEAN, wr \in BOOLEAN : DeletePrefResume(call, rd, wr)) =>
         /\ \A i \in DOMAIN novels' : novels'[i].id # call.id
         /\ \A i \in DOMAIN enhancedNovels' : enhancedNovels'[i].id # call.id
         /\ preferences'[call.id] = NoPref
         /\ readingStats(preferences') =
              readingStats([preferences' EXCEPT ![call.id] = NoPref])]_vars

\* The part of C38 about the two lists: no entry with the deleted id is left.
DeleteLeavesNoListEntry ==
  [][\A call \in NovelPending :
       (\E rd \in BOOLEAN, wr \in BOOLEAN : DeletePrefResume(call, rd, wr)) =>
         /\ \A i \in DOMAIN novels' : novels'[i].id # call.id
         /\ \A i \in DOMAIN enhancedNovels' : enhancedNovels'[i].id # call.id]_vars

====
